---- MODULE Spec2Model ----
(***************************************************************************)
(* A model of the Kernels control plane: the state machine, the            *)
(* hash-chained audit ledger, the replay verifier, the jurisdiction        *)
(* evaluator, the tool dispatcher and the per-request pipeline of the      *)
(* kernel variants.                                                        *)
(*                                                                         *)
(* SHA-256 is modelled as a collision-free symbolic function: the digest   *)
(* of a text is the text wrapped in "sha256(...)".  Python's None is the   *)
(* value None below; canonical serialization writes it as null.            *)
(***************************************************************************)
EXTENDS Integers, Sequences, FiniteSets, TLC

VARIABLES
    hashseed,     \* the string hash seed of the interpreter (PYTHONHASHSEED)
    variant,      \* VARIANT_NAME of the kernel under test
    booted,       \* boot() has run
    sm,           \* StateMachine: [state, transition_count]
    ledger,       \* AuditLedger._entries, a sequence of AuditEntry
    clock,        \* VirtualClock._current_ms
    receipt,      \* what the last submit / halt call returned
    lastOp,       \* the last operation and how it ended
    path,         \* states the state machine entered during the last call
    invoked,      \* tool handler invocations during the last call
    invokedIn,    \* the kernel state at each of these invocations
    nSubmits,     \* submit calls made on the booted kernel
    nLive,        \* submit calls made while the kernel was not halted
    nHalts,       \* halt calls that succeeded
    bundle,       \* the last EvidenceBundle exported
    panicked,     \* the last submit call met an internal error
    r_entries,    \* replay input: a sequence of entry dictionaries
    r_expected,   \* replay input: expected_root_hash (None when not given)
    r_mut,        \* the tampering applied to r_entries, if any
    r_phase,      \* idle, loaded, tampered or verified
    r_result,     \* what replay_and_verify returned for the input
    r_bundle,     \* what verify_evidence_bundle returned for the input
    m_sm,         \* a StateMachine driven directly: [state, transition_count]
    m_res,        \* the last call made on m_sm and how it ended
    registered,   \* ToolRegistry._tools: name -> handler, None when absent
    reg_res,      \* the last register / unregister call and how it ended
    d_call,       \* the tool call last given to Dispatcher.execute
    d_res,        \* what Dispatcher.execute did with it
    p_policy,     \* the JurisdictionPolicy given to the evaluator
    p_request,    \* the KernelRequest last given to the evaluator or a hook
    p_result,     \* what the evaluator or the hook returned for it
    t_a,          \* first of two kernels run side by side: [sm, ledger, ...]
    t_b,          \* second of the two kernels
    t_in,         \* the requests last submitted to the two kernels
    t_n,          \* submit calls made on each of the two kernels
    a_sm,         \* AsyncBaseKernel._state_machine
    a_ledger,     \* AsyncBaseKernel._ledger: the entries appended
    a_lock,       \* AsyncBaseKernel._lock: "free" or the call that holds it
    a_cur,        \* the request of the submit suspended in its tool handler
    a_receipt,    \* what the last submit returned, or that it raised
    a_obs,        \* the last halt / export call and what it met
    a_asked,      \* <<from, to>> of each transition the last submit asked for
    a_retry,      \* the submit_with_retry call in progress, if any
    a_n,          \* submit calls started on the asynchronous kernel
    c_ms,         \* VirtualClock._current_ms of a clock driven directly
    c_max,        \* the greatest value now_ms() has returned
    c_res         \* the last call made on the clock and how it ended

kvars == <<hashseed, variant, booted, sm, ledger, clock, receipt, lastOp, path,
           invoked, invokedIn, nSubmits, nLive, nHalts, bundle, panicked>>
rvars == <<r_entries, r_expected, r_mut, r_phase, r_result, r_bundle>>
mvars == <<m_sm, m_res>>
dvars == <<registered, reg_res, d_call, d_res>>
pvars == <<p_policy, p_request, p_result>>
tvars == <<t_a, t_b, t_in, t_n>>
avars == <<a_sm, a_ledger, a_lock, a_cur, a_receipt, a_obs, a_asked, a_retry,
          a_n>>
cvars == <<c_ms, c_max, c_res>>
vars == <<kvars, rvars, mvars, dvars, pvars, tvars, avars, cvars>>

\* ------------------------------------------------------------------ bounds
MaxSubmits == 2
MaxAppends == 3
MaxTransitions == 5
MaxTicks == 1

\* --------------------------------------------------------------- constants
None == "None"
InitialMs == 1000
DefaultMaxIntentLength == 4096
PermissiveMaxIntentLength == 8192
DefaultMaxParamBytes == 65536

KernelStates ==
    {"BOOTING", "IDLE", "VALIDATING", "ARBITRATING", "EXECUTING", "AUDITING",
     "HALTED"}

\* --------------------------------------------------------- codec / hashing
Quote(s) == "\"" \o s \o "\""

\* A value that is neither a string nor None (the integer 5).
NotAString == "<5>"

\* A JSON value that is a string, null or the integer 5.
JStr(v) ==
    IF v = None THEN "null" ELSE IF v = NotAString THEN "5" ELSE Quote(v)

compute_hash_str(text) == "sha256(" \o text \o ")"

compute_chain_hash(prev_hash, entry_data) ==
    compute_hash_str(prev_hash \o ":" \o entry_data)

\* "0" * 64
Zeros64 == "0000000000000000000000000000000000000000000000000000000000000000"

genesis_hash_mut == "0"

genesis_hash == Zeros64

\* Canonical JSON of the hashed fields of an entry: keys sorted.
serialize_for_audit(request_id, actor, intent, decision, state_from, state_to, ts_ms, tool_name, params_hash, evidence_hash, error) ==
    "{" \o "\"actor\":" \o JStr(actor)
        \o ",\"decision\":" \o JStr(decision)
        \o ",\"error\":" \o JStr(error)
        \o ",\"evidence_hash\":" \o JStr(evidence_hash)
        \o ",\"intent\":" \o JStr(intent)
        \o ",\"params_hash\":" \o JStr(params_hash)
        \o ",\"request_id\":" \o JStr(request_id)
        \o ",\"state_from\":" \o JStr(state_from)
        \o ",\"state_to\":" \o JStr(state_to)
        \o ",\"tool_name\":" \o JStr(tool_name)
        \o ",\"ts_ms\":" \o ToString(ts_ms)
        \o "}"

\* The keys the mappings of the inputs use, sorted.
SortedKeys ==
    <<"a", "b", "non_goals", "scope", "success_criteria", "text">>

\* The items of a mapping sorted by key (json.dumps(..., sort_keys=True)).
RECURSIVE sort_items(_, _)
sort_items(kv, i) ==
    IF i > Len(SortedKeys) THEN <<>>
    ELSE SelectSeq(kv, LAMBDA item : item[1] = SortedKeys[i])
         \o sort_items(kv, i + 1)

\* The items of a JSON object, in the order given.
RECURSIVE serialize_items(_)
serialize_items(kv) ==
    IF kv = <<>> THEN ""
    ELSE Quote(kv[1][1]) \o ":" \o JStr(kv[1][2])
         \o (IF Len(kv) > 1 THEN "," ELSE "") \o serialize_items(Tail(kv))

\* A serialization that writes the items of a mapping in insertion order.
serialize_deterministic_mut(params) ==
    IF params.is_none THEN "null"
    ELSE IF ~params.is_dict THEN "5"
    ELSE IF params.has_constraints
    THEN "{\"constraints\":"
         \o (IF params.constraints.is_none THEN "null"
             ELSE IF ~params.constraints.is_dict THEN "5"
             ELSE "{" \o serialize_items(params.constraints.kv) \o "}")
         \o "}"
    ELSE "{" \o serialize_items(params.kv) \o "}"

\* Canonical JSON of a params value: keys sorted.
serialize_deterministic(params) ==
    IF params.is_none THEN "null"
    ELSE IF ~params.is_dict THEN "5"
    ELSE IF params.has_constraints
    THEN "{\"constraints\":"
         \o (IF params.constraints.is_none THEN "null"
             ELSE IF ~params.constraints.is_dict THEN "5"
             ELSE "{" \o serialize_items(sort_items(params.constraints.kv, 1))
                  \o "}")
         \o "}"
    ELSE "{" \o serialize_items(sort_items(params.kv, 1)) \o "}"

compute_hash_dict(params) == compute_hash_str(serialize_deterministic(params))

\* ------------------------------------------------------------ state machine
ALLOWED_TRANSITIONS ==
    [s \in KernelStates |->
        CASE s = "BOOTING" -> {"IDLE", "HALTED"}
          [] s = "IDLE" -> {"VALIDATING", "HALTED"}
          [] s = "VALIDATING" -> {"ARBITRATING", "AUDITING", "HALTED"}
          [] s = "ARBITRATING" -> {"EXECUTING", "AUDITING", "HALTED"}
          [] s = "EXECUTING" -> {"AUDITING", "HALTED"}
          [] s = "AUDITING" -> {"IDLE", "HALTED"}
          [] OTHER -> {}]

can_transition_mut(from_state, to_state) == TRUE

can_transition(from_state, to_state) ==
    to_state \in ALLOWED_TRANSITIONS[from_state]

is_terminal(state) == Cardinality(ALLOWED_TRANSITIONS[state]) = 0

is_halted_mut(m) == m.state = "BOOTING"

\* StateMachine.is_halted
is_halted(m) == m.state = "HALTED"

NewStateMachine == [state |-> "BOOTING", transition_count |-> 0]

\* A transition that forgets to count itself.
transition_mut(m, to_state) ==
    IF is_terminal(m.state) THEN [ok |-> FALSE, sm |-> m, prev |-> m.state]
    ELSE IF ~can_transition(m.state, to_state)
         THEN [ok |-> FALSE, sm |-> m, prev |-> m.state]
    ELSE [ok |-> TRUE, sm |-> [m EXCEPT !.state = to_state], prev |-> m.state]

\* StateMachine.transition: ok = FALSE stands for the StateError raised.
transition(m, to_state) ==
    IF is_terminal(m.state) THEN [ok |-> FALSE, sm |-> m, prev |-> m.state]
    ELSE IF ~can_transition(m.state, to_state)
         THEN [ok |-> FALSE, sm |-> m, prev |-> m.state]
    ELSE [ok |-> TRUE,
          sm |-> [state |-> to_state,
                  transition_count |-> m.transition_count + 1],
          prev |-> m.state]

sm_halt_mut(m) == [ok |-> TRUE, sm |-> m, prev |-> m.state]

\* StateMachine.halt
sm_halt(m) ==
    IF is_terminal(m.state) THEN [ok |-> FALSE, sm |-> m, prev |-> m.state]
    ELSE transition(m, "HALTED")

\* StateMachine.reset
sm_reset(m, to_state) == [state |-> to_state, transition_count |-> 0]

\* ------------------------------------------------------------------ ledger
root_hash_mut(entries) == genesis_hash

\* AuditLedger.root_hash
root_hash(entries) ==
    IF entries = <<>> THEN genesis_hash ELSE entries[Len(entries)].entry_hash

\* AuditLedger.append: f holds the inputs; the entry is chained to the root.
ledger_append(entries, f) ==
    LET prev_hash == root_hash(entries)
        body == serialize_for_audit(f.request_id, f.actor, f.intent,
                                    f.decision, f.state_from, f.state_to,
                                    f.ts_ms, f.tool_name, f.params_hash,
                                    f.evidence_hash, f.error)
    IN Append(entries,
              [prev_hash |-> prev_hash,
               entry_hash |-> compute_chain_hash(prev_hash, body),
               ts_ms |-> f.ts_ms,
               request_id |-> f.request_id,
               actor |-> f.actor,
               intent |-> f.intent,
               decision |-> f.decision,
               state_from |-> f.state_from,
               state_to |-> f.state_to,
               tool_name |-> f.tool_name,
               params_hash |-> f.params_hash,
               evidence_hash |-> f.evidence_hash,
               error |-> f.error,
               permit_digest |-> None,
               permit_verification |-> None,
               permit_denial_reasons |-> <<>>,
               proposal_hash |-> None])

\* An export that leaves out the newest entry.
ledger_export_mut(entries, kernel_id, variant_name, exported_at_ms) ==
    LET stale == IF entries = <<>> THEN entries
                 ELSE SubSeq(entries, 1, Len(entries) - 1)
    IN [ledger_entries |-> stale,
        root_hash |-> root_hash(stale),
        exported_at_ms |-> exported_at_ms,
        kernel_id |-> kernel_id,
        variant |-> variant_name]

\* AuditLedger.export
ledger_export(entries, kernel_id, variant_name, exported_at_ms) ==
    [ledger_entries |-> entries,
     root_hash |-> root_hash(entries),
     exported_at_ms |-> exported_at_ms,
     kernel_id |-> kernel_id,
     variant |-> variant_name]

\* audit_entry_to_dict: the dictionary an entry serializes to.
audit_entry_to_dict(e) ==
    [k \in DOMAIN e |-> e[k]]

\* AuditLedger.to_list
to_list(entries) == [i \in 1..Len(entries) |-> audit_entry_to_dict(entries[i])]

\* ------------------------------------------------------------------ replay
\* dict.get(key, default)
Get(d, key, default) == IF key \in DOMAIN d THEN d[key] ELSE default

\* The text of an error of replay_and_verify: the entry index (0-based, -1
\* for the root hash check) and what mismatched.
ReplayError(i, what) == [entry |-> i, what |-> what]

\* The loop of replay_and_verify over entries[i..], with the running prev_hash.
RECURSIVE replay_loop(_, _, _, _)
replay_loop(entries, i, prev_hash, errors) ==
    IF i > Len(entries) THEN [prev_hash |-> prev_hash, errors |-> errors]
    ELSE
      LET entry == entries[i]
          entry_prev_hash == Get(entry, "prev_hash", "")
          e1 == IF entry_prev_hash # prev_hash
                THEN Append(errors, ReplayError(i - 1, "prev_hash mismatch"))
                ELSE errors
          entry_data ==
              serialize_for_audit(Get(entry, "request_id", ""),
                                  Get(entry, "actor", ""),
                                  Get(entry, "intent", ""),
                                  Get(entry, "decision", ""),
                                  Get(entry, "state_from", ""),
                                  Get(entry, "state_to", ""),
                                  Get(entry, "ts_ms", 0),
                                  Get(entry, "tool_name", None),
                                  Get(entry, "params_hash", None),
                                  Get(entry, "evidence_hash", None),
                                  Get(entry, "error", None))
          computed_hash == compute_chain_hash(prev_hash, entry_data)
          entry_hash == Get(entry, "entry_hash", "")
          e2 == IF computed_hash # entry_hash
                THEN Append(e1, ReplayError(i - 1, "entry_hash mismatch"))
                ELSE e1
      IN replay_loop(entries, i + 1, entry_hash, e2)

\* Mutants of replay_and_verify: one chains each entry to the hash it
\* recomputed instead of the hash the entry claims, one starts the chain from
\* the empty string instead of the genesis hash.
RECURSIVE replay_loop_computed(_, _, _, _)
replay_loop_computed(entries, i, prev_hash, errors) ==
    IF i > Len(entries) THEN [prev_hash |-> prev_hash, errors |-> errors]
    ELSE
      LET entry == entries[i]
          e1 == IF entry.prev_hash # prev_hash
                THEN Append(errors, ReplayError(i - 1, "prev_hash mismatch"))
                ELSE errors
          computed_hash ==
              compute_chain_hash(prev_hash,
                  serialize_for_audit(entry.request_id, entry.actor,
                                      entry.intent, entry.decision,
                                      entry.state_from, entry.state_to,
                                      entry.ts_ms, entry.tool_name,
                                      entry.params_hash, entry.evidence_hash,
                                      entry.error))
          e2 == IF computed_hash # entry.entry_hash
                THEN Append(e1, ReplayError(i - 1, "entry_hash mismatch"))
                ELSE e1
      IN replay_loop_computed(entries, i + 1, computed_hash, e2)

replay_and_verify_computed(entries, expected_root_hash) ==
    IF entries = <<>> THEN [is_valid |-> TRUE, errors |-> <<>>]
    ELSE
      LET r == replay_loop_computed(entries, 1, genesis_hash, <<>>)
          errors == IF expected_root_hash # None
                       /\ r.prev_hash # expected_root_hash
                    THEN Append(r.errors, ReplayError(-1, "Root hash mismatch"))
                    ELSE r.errors
      IN [is_valid |-> Len(errors) = 0, errors |-> errors]

replay_and_verify_nogenesis(entries, expected_root_hash) ==
    IF entries = <<>> THEN [is_valid |-> TRUE, errors |-> <<>>]
    ELSE
      LET r == replay_loop(entries, 1, "", <<>>)
          errors == IF expected_root_hash # None
                       /\ r.prev_hash # expected_root_hash
                    THEN Append(r.errors, ReplayError(-1, "Root hash mismatch"))
                    ELSE r.errors
      IN [is_valid |-> Len(errors) = 0, errors |-> errors]

\* replay_and_verify
replay_and_verify(entries, expected_root_hash) ==
    IF entries = <<>> THEN [is_valid |-> TRUE, errors |-> <<>>]
    ELSE
      LET r == replay_loop(entries, 1, genesis_hash, <<>>)
          errors == IF expected_root_hash # None
                       /\ r.prev_hash # expected_root_hash
                    THEN Append(r.errors, ReplayError(-1, "Root hash mismatch"))
                    ELSE r.errors
      IN [is_valid |-> Len(errors) = 0, errors |-> errors]

\* verify_evidence_bundle
verify_evidence_bundle(b) ==
    LET entries == Get(b, "ledger_entries", <<>>)
        r == replay_and_verify(entries, Get(b, "root_hash", None))
    IN [is_valid |-> r.is_valid,
        entries_verified |-> Len(entries),
        errors |-> r.errors,
        computed_root_hash |->
            IF entries # <<>>
            THEN Get(entries[Len(entries)], "entry_hash", genesis_hash)
            ELSE genesis_hash]

\* ---------------------------------------------------------------- requests
\* A params value is [is_none, is_dict, kv, has_constraints, constraints]: kv
\* its items as a sequence of <<key, value>> in insertion order, constraints
\* the value
\* of its "constraints" item when has_constraints.  is_none is the value None;
\* is_none = is_dict = FALSE is a value that is no mapping (the integer 5).
NoConstraints == [is_none |-> TRUE, is_dict |-> FALSE, kv |-> <<>>]

Mapping(kv) ==
    [is_none |-> FALSE, is_dict |-> TRUE, kv |-> kv, has_constraints |-> FALSE,
     constraints |-> NoConstraints]

NotAMapping ==
    [is_none |-> FALSE, is_dict |-> FALSE, kv |-> <<>>,
     has_constraints |-> FALSE, constraints |-> NoConstraints]

\* params = None
NoParams ==
    [is_none |-> TRUE, is_dict |-> FALSE, kv |-> <<>>,
     has_constraints |-> FALSE, constraints |-> NoConstraints]

\* {"constraints": {key: value, ...}}
WithConstraints(kv) ==
    [is_none |-> FALSE, is_dict |-> TRUE, kv |-> <<>>, has_constraints |-> TRUE,
     constraints |-> [is_none |-> FALSE, is_dict |-> TRUE, kv |-> kv]]

\* {"constraints": value} for a value that is None or no mapping
WithConstraintsValue(is_none) ==
    [is_none |-> FALSE, is_dict |-> TRUE, kv |-> <<>>, has_constraints |-> TRUE,
     constraints |-> [is_none |-> is_none, is_dict |-> FALSE, kv |-> <<>>]]

\* A tool call is [present, is_object, name, has_params, params]:
\* present = FALSE is tool_call = None, is_object tells a ToolCall object from
\* a dictionary, has_params whether the dictionary has a "params" key.  A
\* dictionary without a "name" key has name = "" (every reader of the name
\* uses .get("name"), which treats the two alike).
ToolCall(name, params) ==
    [present |-> TRUE, is_object |-> TRUE, name |-> name, has_params |-> TRUE,
     params |-> params]

NoToolCall ==
    [present |-> FALSE, is_object |-> TRUE, name |-> "", has_params |-> TRUE,
     params |-> Mapping(<<>>)]

\* {"name": name, "params": params}, or {"name": name} when ~has_params
DictToolCall(name, has_params, params) ==
    [present |-> TRUE, is_object |-> FALSE, name |-> name,
     has_params |-> has_params, params |-> params]

\* KernelRequest
KernelRequest(request_id, ts_ms, actor, intent, tool_call, params, evidence) ==
    [request_id |-> request_id, ts_ms |-> ts_ms, actor |-> actor,
     intent |-> intent, tool_call |-> tool_call, params |-> params,
     evidence |-> evidence]

\* str.strip(), on the whitespace strings the inputs hold
Strip(s) == IF s \in {" ", "   "} THEN "" ELSE s

\* sep.join(errors)
RECURSIVE JoinWith(_, _)
JoinWith(errors, sep) ==
    IF errors = <<>> THEN ""
    ELSE IF Len(errors) = 1 THEN errors[1]
    ELSE errors[1] \o sep \o JoinWith(Tail(errors), sep)

\* "; ".join(errors)
Join(errors) == JoinWith(errors, "; ")

Reverse(seq) == [i \in 1..Len(seq) |-> seq[Len(seq) + 1 - i]]

\* The order in which this interpreter iterates a frozenset of strings,
\* given its elements in sorted order.  The order follows the string hashes,
\* which the hash seed of the process decides; two of the possible orders
\* are kept.
IterationOrder(sorted_elements) ==
    IF hashseed = 0 THEN sorted_elements ELSE Reverse(sorted_elements)

\* ------------------------------------------------------------------ policy
Variants == {"strict", "permissive", "evidence-first", "dual-channel"}

\* JurisdictionPolicy
JurisdictionPolicy(actors, tools, max_intent_length, allow_intent_only) ==
    [allowed_actors |-> actors,
     allowed_tools |-> tools,
     required_fields |-> {"request_id", "actor", "intent"},
     max_param_bytes |-> DefaultMaxParamBytes,
     max_intent_length |-> max_intent_length,
     allow_intent_only |-> allow_intent_only]

\* The policy each variant installs.
PolicyOf(v) ==
    IF v = "permissive"
    THEN JurisdictionPolicy({"*"}, {"*"}, PermissiveMaxIntentLength, TRUE)
    ELSE IF v = "strict"
    THEN JurisdictionPolicy({"*"}, {"*"}, DefaultMaxIntentLength, FALSE)
    ELSE JurisdictionPolicy({"*"}, {"*"}, DefaultMaxIntentLength, TRUE)

allows_actor(policy, actor) ==
    IF "*" \in policy.allowed_actors THEN TRUE
    ELSE actor \in policy.allowed_actors

allows_tool(policy, tool) ==
    IF "*" \in policy.allowed_tools THEN TRUE
    ELSE tool \in policy.allowed_tools

\* -------------------------------------------------------------- validation
\* validate_tool_call (common/validate.py)
validate_tool_call(tool_call) ==
    IF tool_call.is_object
    THEN IF tool_call.name = ""
         THEN <<"tool_call.name is required">> ELSE <<>>
    ELSE (IF tool_call.name = ""
          THEN <<"tool_call.name cannot be empty">> ELSE <<>>)
         \o (IF tool_call.has_params /\ ~tool_call.params.is_dict
             THEN <<"tool_call.params must be a dictionary">> ELSE <<>>)

\* validate_request
validate_request(request) ==
    (IF request.request_id = "" THEN <<"request_id is required">> ELSE <<>>)
    \o (IF request.ts_ms < 0 THEN <<"ts_ms must be non-negative">> ELSE <<>>)
    \o (IF request.actor = "" THEN <<"actor is required">> ELSE <<>>)
    \o (IF ~request.params.is_none /\ ~request.params.is_dict
        THEN <<"params must be a dictionary">> ELSE <<>>)
    \o (IF request.tool_call.present
        THEN validate_tool_call(request.tool_call) ELSE <<>>)

\* check_ambiguity
check_ambiguity(request, max_intent_length, strict) ==
    (IF request.intent = "" \/ Strip(request.intent) = ""
     THEN <<"Empty intent is ambiguous">> ELSE <<>>)
    \o (IF request.intent # "" /\ Len(request.intent) > max_intent_length
        THEN <<"Intent exceeds maximum length of "
               \o ToString(max_intent_length)>>
        ELSE <<>>)
    \o (IF strict /\ request.tool_call.present /\ request.tool_call.name = ""
        THEN <<"Tool call with empty name is ambiguous">> ELSE <<>>)
    \o (IF ~request.params.is_none /\ ~request.params.is_dict
        THEN <<"Params must be a dictionary">> ELSE <<>>)

\* ------------------------------------------------------- jurisdiction rules
check_actor_allowed(request, policy) ==
    IF ~allows_actor(policy, request.actor)
    THEN <<"Actor '" \o request.actor \o "' is not in allowed actors">>
    ELSE <<>>

check_tool_allowed(request, policy) ==
    IF ~request.tool_call.present THEN <<>>
    ELSE IF ~allows_tool(policy, request.tool_call.name)
    THEN <<"Tool '" \o request.tool_call.name \o "' is not in allowed tools">>
    ELSE <<>>

\* The fields check_required_fields can look up (its field_map).
FieldMapKeys == {"request_id", "actor", "intent", "ts_ms"}

\* field_map.get(field) is None or an empty string
FieldMissing(request, field) ==
    IF field \notin FieldMapKeys THEN TRUE
    ELSE IF field = "ts_ms" THEN FALSE
    ELSE request[field] = ""

\* The names a policy can require, sorted.
FieldOrder ==
    <<"actor", "evidence", "intent", "params", "request_id", "tool_call",
      "ts_ms">>

RECURSIVE required_violations(_, _, _)
required_violations(request, policy, i) ==
    IF i > Len(FieldOrder) THEN <<>>
    ELSE LET field == IterationOrder(FieldOrder)[i]
         IN (IF field \in policy.required_fields
                /\ FieldMissing(request, field)
             THEN <<"Required field '" \o field \o "' is missing or empty">>
             ELSE <<>>)
            \o required_violations(request, policy, i + 1)

check_required_fields(request, policy) ==
    required_violations(request, policy, 1)

check_param_size(request, policy) ==
    IF request.params.is_none THEN <<>>
    ELSE IF Len(serialize_deterministic(request.params))
            > policy.max_param_bytes
    THEN <<"Params size exceeds maximum">>
    ELSE <<>>

check_intent_length(request, policy) ==
    IF request.intent # "" /\ Len(request.intent) > policy.max_intent_length
    THEN <<"Intent length exceeds maximum">>
    ELSE <<>>

\* check_tool_call_structure.  A ToolCall object has only its name looked
\* at; a dictionary has its name and, when it has one, its "params" item.
check_tool_call_structure(request) ==
    IF ~request.tool_call.present THEN <<>>
    ELSE IF request.tool_call.is_object
    THEN IF request.tool_call.name = ""
         THEN <<"Tool call name is empty">> ELSE <<>>
    ELSE (IF request.tool_call.name = ""
          THEN <<"Tool call name is empty">> ELSE <<>>)
         \o (IF request.tool_call.has_params
                /\ ~request.tool_call.params.is_dict
             THEN <<"Tool call params must be a dictionary">> ELSE <<>>)

\* An evaluator that stops at the first check that reports a violation.
evaluate_policy_mut(request, policy) ==
    LET first ==
            IF check_required_fields(request, policy) # <<>>
            THEN check_required_fields(request, policy)
            ELSE IF check_actor_allowed(request, policy) # <<>>
            THEN check_actor_allowed(request, policy)
            ELSE IF check_tool_allowed(request, policy) # <<>>
            THEN check_tool_allowed(request, policy)
            ELSE IF check_param_size(request, policy) # <<>>
            THEN check_param_size(request, policy)
            ELSE IF check_intent_length(request, policy) # <<>>
            THEN check_intent_length(request, policy)
            ELSE check_tool_call_structure(request)
    IN [allowed |-> Len(first) = 0, violations |-> first]

\* evaluate_policy
evaluate_policy(request, policy) ==
    LET all_violations ==
            check_required_fields(request, policy)
            \o check_actor_allowed(request, policy)
            \o check_tool_allowed(request, policy)
            \o check_param_size(request, policy)
            \o check_intent_length(request, policy)
            \o check_tool_call_structure(request)
    IN [allowed |-> Len(all_violations) = 0, violations |-> all_violations]

\* ----------------------------------------------------------- variant hooks
_is_strict_ambiguity(v) == v # "permissive"

\* dict lookup in an item sequence: the value, or Missing
Missing == "<missing>"

RECURSIVE Lookup(_, _)
Lookup(kv, key) ==
    IF kv = <<>> THEN Missing
    ELSE IF kv[1][1] = key THEN kv[1][2]
    ELSE Lookup(Tail(kv), key)

\* REQUIRED_CONSTRAINT_KEYS, sorted
REQUIRED_CONSTRAINT_KEYS == <<"non_goals", "scope", "success_criteria">>

\* isinstance(value, str)
IsStr(value) == value \notin {None, NotAString}

RECURSIVE missing_keys(_, _)
missing_keys(kv, i) ==
    IF i > Len(REQUIRED_CONSTRAINT_KEYS) THEN <<>>
    ELSE (IF Lookup(kv, REQUIRED_CONSTRAINT_KEYS[i]) = Missing
          THEN <<REQUIRED_CONSTRAINT_KEYS[i]>> ELSE <<>>)
         \o missing_keys(kv, i + 1)

RECURSIVE empty_constraints(_, _)
empty_constraints(kv, i) ==
    IF i > Len(REQUIRED_CONSTRAINT_KEYS) THEN <<>>
    ELSE LET key == IterationOrder(REQUIRED_CONSTRAINT_KEYS)[i]
             value == Lookup(kv, key)
         IN (IF value # Missing
                /\ (value = None \/ (IsStr(value) /\ Strip(value) = ""))
             THEN <<"Constraint '" \o key \o "' cannot be empty">>
             ELSE <<>>)
            \o empty_constraints(kv, i + 1)

\* A hook that asks for no evidence.
evidence_first_check_mut(request) == <<>>

\* EvidenceFirstKernel._check_variant_requirements
evidence_first_check(request) ==
    IF request.evidence = None
    THEN <<"Evidence field is required for this kernel variant">>
    ELSE IF Strip(request.evidence) = ""
    THEN <<"Evidence field cannot be empty">>
    ELSE <<>>

\* DualChannelKernel._check_variant_requirements
dual_channel_check(request) ==
    IF request.params.is_none
    THEN <<"Params with constraints dict is required">>
    ELSE IF ~request.params.has_constraints
            \/ request.params.constraints.is_none
    THEN <<"Constraints dict is required in params">>
    ELSE IF ~request.params.constraints.is_dict
    THEN <<"Constraints must be a dictionary">>
    ELSE LET kv == request.params.constraints.kv
         IN (IF missing_keys(kv, 1) # <<>>
             THEN <<"Missing required constraint keys: "
                    \o JoinWith(missing_keys(kv, 1), ", ")>>
             ELSE <<>>)
            \o empty_constraints(kv, 1)

\* _check_variant_requirements of the variant v
_check_variant_requirements(v, request) ==
    IF v = "evidence-first" THEN evidence_first_check(request)
    ELSE IF v = "dual-channel" THEN dual_channel_check(request)
    ELSE <<>>

\* ------------------------------------------------ tool registry, dispatcher
\* create_default_registry: the names registered
DefaultRegistry == {"echo", "add"}

\* The keyword arguments each built-in handler takes.
HandlerArgs(name) ==
    IF name = "echo" THEN {"text"}
    ELSE IF name = "add" THEN {"a", "b"}
    ELSE {}

Keys(kv) == {kv[i][1] : i \in 1..Len(kv)}

\* ToolRegistry.invoke: ok = FALSE stands for the ToolError raised.
invoke(registry, name, params) ==
    IF name \notin registry
    THEN [ok |-> FALSE, called |-> FALSE, value |-> None,
          error |-> "Tool '" \o name \o "' not found"]
    ELSE IF Keys(params.kv) # HandlerArgs(name)
    THEN [ok |-> FALSE, called |-> TRUE, value |-> None,
          error |-> "Invalid parameters for tool '" \o name \o "'"]
    ELSE IF name \notin DefaultRegistry
    THEN [ok |-> FALSE, called |-> TRUE, value |-> None,
          error |-> "Tool '" \o name \o "' execution failed"]
    ELSE [ok |-> TRUE, called |-> TRUE,
          value |-> IF name = "echo" THEN Lookup(params.kv, "text")
                    ELSE Lookup(params.kv, "a") \o Lookup(params.kv, "b"),
          error |-> None]

dispatcher_validate_tool_call_mut(registry, tool_call) == <<>>

\* Dispatcher.validate_tool_call, for a ToolCall object
dispatcher_validate_tool_call(registry, tool_call) ==
    IF tool_call.name = "" THEN <<"Tool name is required">>
    ELSE IF tool_call.name \notin registry
    THEN <<"Tool '" \o tool_call.name \o "' is not registered">>
    ELSE IF ~tool_call.params.is_dict
    THEN <<"Tool params must be a dictionary">>
    ELSE <<>>

\* Dispatcher.execute: raised = TRUE stands for an exception leaving execute
\* (dict(params) runs before the try block).
execute(registry, tool_call) ==
    IF ~tool_call.params.is_dict
    THEN [raised |-> TRUE, success |-> FALSE, called |-> FALSE,
          tool_name |-> tool_call.name, result |-> None, error |-> None]
    ELSE LET errors == dispatcher_validate_tool_call(registry, tool_call)
             r == invoke(registry, tool_call.name, tool_call.params)
         IN IF errors # <<>>
            THEN [raised |-> FALSE, success |-> FALSE, called |-> FALSE,
                  tool_name |-> tool_call.name, result |-> None,
                  error |-> Join(errors)]
            ELSE [raised |-> FALSE, success |-> r.ok, called |-> r.called,
                  tool_name |-> tool_call.name, result |-> r.value,
                  error |-> r.error]

\* --------------------------------------------------------- kernel pipeline
KernelId == "k1"

\* The ToolRegistry the kernel under test is constructed with: the default
\* tools and a handler registered under the empty name.
KernelRegistry == DefaultRegistry \cup {""}

\* The running context of one submit call: raised = an unclassified internal
\* error is propagating to the boundary of submit.
Ctx(m, entries) ==
    [sm |-> m, ledger |-> entries, path |-> <<>>, invoked |-> 0,
     invoked_in |-> <<>>, raised |-> FALSE, appended |-> FALSE]

\* self._state_machine.transition(to_state) inside the pipeline
StepTo(c, to_state) ==
    IF c.raised THEN c
    ELSE LET r == transition(c.sm, to_state)
         IN IF r.ok
            THEN [c EXCEPT !.sm = r.sm, !.path = Append(@, to_state)]
            ELSE [c EXCEPT !.raised = TRUE]

\* A programmer-error panic at the given stage, when the input asks for one.
Panic(c, stage, fault) ==
    IF fault = stage THEN [c EXCEPT !.raised = TRUE] ELSE c

\* The inputs of the ledger entry of a request.
EntryFields(request, decision, state_from, state_to, ts_ms, error) ==
    [request_id |-> request.request_id,
     actor |-> request.actor,
     intent |-> request.intent,
     decision |-> decision,
     state_from |-> state_from,
     state_to |-> state_to,
     ts_ms |-> ts_ms,
     tool_name |-> IF request.tool_call.present
                   THEN request.tool_call.name ELSE None,
     params_hash |-> IF request.tool_call.present
                     THEN compute_hash_dict(request.tool_call.params)
                     ELSE None,
     evidence_hash |-> IF request.evidence # None
                       THEN compute_hash_str(Quote(request.evidence))
                       ELSE None,
     error |-> error]

\* An append that drops the entries already in the ledger.
AppendEntry_mut(c, f) ==
    IF c.raised THEN c
    ELSE [c EXCEPT !.ledger = ledger_append(<<>>, f), !.appended = TRUE]

\* self._ledger.append(...) inside the pipeline
AppendEntry(c, f) ==
    IF c.raised THEN c
    ELSE [c EXCEPT !.ledger = ledger_append(@, f), !.appended = TRUE]

\* AUDITING: append the entry, then back to IDLE.
Audit(c, request, decision, state_from, ts_ms, error) ==
    StepTo(AppendEntry(StepTo(c, "AUDITING"),
                       EntryFields(request, decision, state_from, "IDLE",
                                   ts_ms, error)),
           "IDLE")

\* An outcome that reports every request accepted.
Outcome_mut(c, status, decision, error, tool_result) ==
    [c |-> c, status |-> "ACCEPTED", decision |-> decision, error |-> error,
     tool_result |-> tool_result]

Outcome(c, status, decision, error, tool_result) ==
    [c |-> c, status |-> status, decision |-> decision, error |-> error,
     tool_result |-> tool_result]

\* A pipeline that dispatches the tool before it enters EXECUTING.
Execute_mut(c, v, request, state_from, ts_ms, fault) ==
    LET res == execute(KernelRegistry, request.tool_call)
        c3 == IF res.called
              THEN [c EXCEPT !.invoked = @ + 1,
                             !.invoked_in = Append(@, c.sm.state)]
              ELSE c
        c4 == Panic(StepTo(c3, "EXECUTING"), "execute", fault)
    IN Outcome(Audit(c4, request, "ALLOW", state_from, ts_ms, res.error),
               IF res.success THEN "ACCEPTED" ELSE "FAILED",
               "ALLOW", res.error, res.result)

\* Steps 6-8 of submit: EXECUTING, dispatch, AUDITING, IDLE.
Execute(c, v, request, state_from, ts_ms, fault) ==
    LET c3 == Panic(StepTo(c, "EXECUTING"), "execute", fault)
        res == execute(KernelRegistry, request.tool_call)
        c4 == IF c3.raised THEN c3
              ELSE IF res.raised THEN [c3 EXCEPT !.raised = TRUE]
              ELSE IF res.called
              THEN [c3 EXCEPT !.invoked = @ + 1,
                              !.invoked_in = Append(@, c3.sm.state)]
              ELSE c3
    IN Outcome(Audit(c4, request, "ALLOW", state_from, ts_ms, res.error),
               IF res.success THEN "ACCEPTED" ELSE "FAILED",
               "ALLOW", res.error, res.result)

\* An arbitration that sends every request on to EXECUTING.
Arbitrate_mut(c, v, request, state_from, ts_ms, fault) ==
    Execute(Panic(StepTo(c, "ARBITRATING"), "arbitrate", fault), v, request,
            state_from, ts_ms, fault)

\* Steps 4-5 of submit: ARBITRATING.
Arbitrate(c, v, request, state_from, ts_ms, fault) ==
    LET policy == PolicyOf(v)
        c2 == Panic(StepTo(c, "ARBITRATING"), "arbitrate", fault)
        violations ==
            evaluate_policy(request, policy).violations
            \o _check_variant_requirements(v, request)
            \o check_ambiguity(request, policy.max_intent_length,
                               _is_strict_ambiguity(v))
            \o (IF request.tool_call.present
                THEN dispatcher_validate_tool_call(KernelRegistry,
                                                   request.tool_call)
                ELSE <<>>)
    IN IF violations # <<>>
       THEN Outcome(Audit(c2, request, "DENY", state_from, ts_ms,
                          Join(violations)),
                    "REJECTED", "DENY", Join(violations), None)
       ELSE IF ~request.tool_call.present
       THEN IF policy.allow_intent_only
            THEN Outcome(Audit(c2, request, "ALLOW", state_from, ts_ms, None),
                         "ACCEPTED", "ALLOW", None, None)
            ELSE Outcome(Audit(c2, request, "DENY", state_from, ts_ms,
                               "tool_call is required"),
                         "REJECTED", "DENY", "tool_call is required", None)
       ELSE Execute(c2, v, request, state_from, ts_ms, fault)

\* A pipeline that passes every request on to EXECUTING unchecked.
Validate_mut(c, v, request, state_from, ts_ms, fault) ==
    Execute(StepTo(StepTo(c, "VALIDATING"), "ARBITRATING"), v, request,
            state_from, ts_ms, fault)

\* Step 3 of submit: VALIDATING.
Validate(c, v, request, state_from, ts_ms, fault) ==
    LET c1 == Panic(StepTo(c, "VALIDATING"), "validate", fault)
        errors == validate_request(request)
    IN IF errors # <<>>
       THEN Outcome(Audit(c1, request, "DENY", state_from, ts_ms,
                          Join(errors)),
                    "REJECTED", "DENY", Join(errors), None)
       ELSE Arbitrate(c1, v, request, state_from, ts_ms, fault)

KernelReceipt(request_id, status, state_from, state_to, ts_ms, decision, error, tool_result) ==
    [request_id |-> request_id, status |-> status, state_from |-> state_from,
     state_to |-> state_to, ts_ms |-> ts_ms, decision |-> decision,
     error |-> error, tool_result |-> tool_result]

NoReceipt == KernelReceipt(None, None, None, None, 0, None, None, None)

\* A boundary that swallows the internal error.
Boundary_mut(o, request, state_from, ts_ms) ==
    [sm |-> o.c.sm, ledger |-> o.c.ledger, path |-> o.c.path,
     invoked |-> o.c.invoked, invoked_in |-> o.c.invoked_in, raised |-> o.c.raised,
     receipt |-> KernelReceipt(request.request_id, o.status, state_from,
                               o.c.sm.state, ts_ms, o.decision, o.error,
                               o.tool_result)]

\* The boundary of submit: an internal error that reached it is turned into a
\* FAILED receipt and a DENY entry with error "internal", and the kernel halts.
Boundary(o, request, state_from, ts_ms) ==
    IF ~o.c.raised
    THEN [sm |-> o.c.sm, ledger |-> o.c.ledger, path |-> o.c.path,
          invoked |-> o.c.invoked, invoked_in |-> o.c.invoked_in, raised |-> FALSE,
          receipt |-> KernelReceipt(request.request_id, o.status, state_from,
                                    o.c.sm.state, ts_ms, o.decision, o.error,
                                    o.tool_result)]
    ELSE LET h == sm_halt(o.c.sm)
             entries ==
                 IF o.c.appended THEN o.c.ledger
                 ELSE ledger_append(o.c.ledger,
                                    EntryFields(request, "DENY", state_from,
                                                "HALTED", ts_ms, "internal"))
         IN [sm |-> h.sm, ledger |-> entries,
             path |-> IF h.ok THEN Append(o.c.path, "HALTED") ELSE o.c.path,
             invoked |-> o.c.invoked, invoked_in |-> o.c.invoked_in, raised |-> TRUE,
             receipt |-> KernelReceipt(request.request_id, "FAILED",
                                       state_from, h.sm.state, ts_ms, "DENY",
                                       "internal", None)]

\* BaseKernel.submit
submit(m, entries, v, ts_ms, request, fault) ==
    IF is_halted(m)
    THEN [sm |-> m, ledger |-> entries, path |-> <<>>, invoked |-> 0,
          invoked_in |-> <<>>, raised |-> FALSE,
          receipt |-> KernelReceipt(request.request_id, "REJECTED", m.state,
                                    m.state, ts_ms, "DENY", "kernel halted",
                                    None)]
    ELSE Boundary(Validate(Ctx(m, entries), v, request, m.state, ts_ms, fault),
                  request, m.state, ts_ms)

\* BaseKernel.halt: ok = FALSE stands for the StateError raised to the caller.
kernel_halt(m, entries, ts_ms, reason) ==
    LET h == sm_halt(m)
    IN IF ~h.ok
       THEN [ok |-> FALSE, sm |-> m, ledger |-> entries, receipt |-> NoReceipt]
       ELSE [ok |-> TRUE, sm |-> h.sm,
             ledger |->
                 ledger_append(entries,
                     [request_id |-> "halt", actor |-> "kernel",
                      intent |-> reason, decision |-> "HALT",
                      state_from |-> h.prev, state_to |-> h.sm.state,
                      ts_ms |-> ts_ms, tool_name |-> None,
                      params_hash |-> None, evidence_hash |-> None,
                      error |-> None]),
             receipt |-> KernelReceipt("halt", "ACCEPTED", h.prev, h.sm.state,
                                       ts_ms, "HALT", None, None)]

\* ------------------------------------------------------------------ inputs
HiParams == Mapping(<< <<"text", "hi">> >>)

FullConstraints ==
    WithConstraints(<< <<"non_goals", "none">>, <<"scope", "echo">>,
                       <<"success_criteria", "text">> >>)

ReqEcho ==
    KernelRequest("r1", 1000, "alice", "echo it", ToolCall("echo", HiParams),
                  FullConstraints, "ok")

\* Evidence that is absent, empty or whitespace only, by request_id.
NoEvidence == [e1 |-> None, e2 |-> "", e3 |-> "   "]

\* ReqEcho with its evidence taken away
WithoutEvidence(id) ==
    KernelRequest(id, 1000, "alice", "echo it", ToolCall("echo", HiParams),
                  FullConstraints, NoEvidence[id])

Requests ==
    { ReqEcho,
      \* empty intent, no tool call
      KernelRequest("r2", 1000, "alice", "", NoToolCall, Mapping(<<>>), None),
      \* a handler that raises: echo() without its text argument
      KernelRequest("r4", 1000, "alice", "echo it",
                    ToolCall("echo", Mapping(<<>>)), FullConstraints, "ok"),
      \* intent only
      KernelRequest("r5", 1000, "alice", "just talk", NoToolCall,
                    FullConstraints, "ok"),
      \* a tool that is not registered
      KernelRequest("r6", 1000, "alice", "use it",
                    ToolCall("missing", Mapping(<<>>)), FullConstraints, "ok"),
      \* structurally invalid: no request_id
      KernelRequest("", 1000, "alice", "echo it", ToolCall("echo", HiParams),
                    FullConstraints, "ok"),
      \* a tool call with an empty name, as a ToolCall and as a dictionary
      KernelRequest("r10", 1000, "alice", "use it",
                    ToolCall("", Mapping(<<>>)), FullConstraints, "ok"),
      KernelRequest("r11", 1000, "alice", "use it",
                    DictToolCall("", TRUE, Mapping(<<>>)), FullConstraints,
                    "ok") }
    \cup {WithoutEvidence(id) : id \in DOMAIN NoEvidence}

Faults == {"validate", "arbitrate", "execute"}

\* What a submit call is given: a request and, possibly, the stage at which
\* an unclassified internal error is raised while it is processed.
SubmitInputs ==
    {<<r, "none">> : r \in Requests} \cup {<<ReqEcho, f>> : f \in Faults}

NoMutation == [index |-> 0, field |-> None]

NoResult == [done |-> FALSE, is_valid |-> FALSE, errors |-> <<>>]

\* ------------------------------------------------------------------- state
KernelInit ==
    /\ booted = FALSE
    /\ sm = NewStateMachine
    /\ ledger = <<>>
    /\ clock = InitialMs
    /\ receipt = NoReceipt
    /\ lastOp = "construct"
    /\ path = <<>>
    /\ invoked = 0
    /\ invokedIn = <<>>
    /\ nSubmits = 0
    /\ nLive = 0
    /\ nHalts = 0
    /\ bundle = <<>>
    /\ panicked = FALSE

\* verify_evidence_bundle not called yet.
NoReplayResult ==
    [done |-> FALSE, is_valid |-> FALSE, entries_verified |-> 0,
     errors |-> <<>>, computed_root_hash |-> None]

ReplayInit ==
    /\ r_entries = <<>>
    /\ r_expected = None
    /\ r_mut = NoMutation
    /\ r_phase = "idle"
    /\ r_result = NoResult
    /\ r_bundle = NoReplayResult

NoCall == [op |-> "none", to |-> None, ok |-> FALSE,
           before |-> NewStateMachine, returned |-> None]

MachineInit ==
    /\ m_sm = NewStateMachine
    /\ m_res = NoCall

NoExecution ==
    [raised |-> FALSE, success |-> FALSE, called |-> FALSE, tool_name |-> None,
     result |-> None, error |-> None]

\* The tools a caller registers: the built-in ones and one whose handler
\* raises.
ToolNames == {"echo", "add", "boom"}

\* The handlers a caller registers a name with.
Handlers == {"h1", "h2"}

\* ToolRegistry.has
has(reg, name) == reg[name] # None

\* ToolRegistry.list_tools, as a set
list_tools(reg) == {name \in DOMAIN reg : has(reg, name)}

\* A register that replaces the handler of a name already registered.
register_mut(reg, name, handler) ==
    [ok |-> TRUE, reg |-> [reg EXCEPT ![name] = handler]]

\* ToolRegistry.register: ok = FALSE stands for the ToolError raised.
register(reg, name, handler) ==
    IF has(reg, name) THEN [ok |-> FALSE, reg |-> reg]
    ELSE [ok |-> TRUE, reg |-> [reg EXCEPT ![name] = handler]]

\* ToolRegistry.unregister: ok = FALSE stands for the ToolError raised.
unregister(reg, name) ==
    IF ~has(reg, name) THEN [ok |-> FALSE, reg |-> reg]
    ELSE [ok |-> TRUE, reg |-> [reg EXCEPT ![name] = None]]

\* create_default_registry()._tools
DefaultTools ==
    [name \in ToolNames |->
        IF name \in DefaultRegistry THEN "h1" ELSE None]

NoRegistryCall ==
    [op |-> "none", name |-> None, handler |-> None, ok |-> FALSE]

DispatchInit ==
    /\ registered = DefaultTools
    /\ reg_res = NoRegistryCall
    /\ d_call = NoToolCall
    /\ d_res = NoExecution

\* ------------------------------------------- the evaluator and hooks alone
\* JurisdictionPolicy.default()
DefaultPolicy ==
    JurisdictionPolicy({"*"}, {"*"}, DefaultMaxIntentLength, FALSE)

\* A policy with explicit allowlists and small limits.
TightPolicy ==
    [JurisdictionPolicy({"alice"}, {"echo"}, 4, FALSE)
        EXCEPT !.max_param_bytes = 2]

\* The required_fields sets the evaluator is tried with.
RequiredFieldSets ==
    { {"request_id", "actor", "intent"}, {"evidence"},
      {"tool_call", "params", "ts_ms"},
      {"request_id", "ts_ms", "actor", "intent", "tool_call", "params",
       "evidence"} }

PolicyInputs ==
    {[base EXCEPT !.required_fields = rf] :
        base \in {DefaultPolicy, TightPolicy}, rf \in RequiredFieldSets}

\* The tool_call values the evaluator is tried with: None, ToolCall objects
\* and dictionaries.
EvalToolCalls ==
    { NoToolCall,
      ToolCall("echo", HiParams),
      ToolCall("", HiParams),
      ToolCall("rm", NotAMapping),
      DictToolCall("echo", TRUE, NotAMapping),
      DictToolCall("", FALSE, Mapping(<<>>)) }

\* request_id, actor and intent of the requests the evaluator is tried with
EvalHeaders ==
    { <<"r1", "alice", "echo it">>, <<"r1", "alice", "">>,
      <<"", "mallory", "echo it">> }

EvalRequests ==
    {KernelRequest(h[1], 1000, h[2], h[3], tool_call, params, evidence) :
        h \in EvalHeaders, tool_call \in EvalToolCalls,
        params \in {NoParams, Mapping(<<>>), HiParams},
        evidence \in {None, "ok"}}

\* A constraints mapping from the value of each key; Missing leaves the key
\* out.
ConstraintsOf(non_goals, scope, success_criteria) ==
    WithConstraints(
        (IF non_goals = Missing THEN <<>>
         ELSE << <<"non_goals", non_goals>> >>)
        \o (IF scope = Missing THEN <<>> ELSE << <<"scope", scope>> >>)
        \o (IF success_criteria = Missing THEN <<>>
            ELSE << <<"success_criteria", success_criteria>> >>))

\* The params values the dual-channel hook is tried with.
ConstraintParams ==
    {NoParams, Mapping(<<>>), WithConstraintsValue(TRUE),
     WithConstraintsValue(FALSE)}
    \cup {ConstraintsOf(non_goals, scope, success_criteria) :
            non_goals \in {Missing, "", "none"},
            scope \in {Missing, None, "", "   ", NotAString, "echo"},
            success_criteria \in {None, NotAString, "text"}}

\* What a variant hook is tried with.
HookInputs ==
    {<<"dual-channel",
       KernelRequest("r1", 1000, "alice", "echo it", NoToolCall, params,
                     "ok")>> : params \in ConstraintParams}
    \cup {<<"evidence-first",
            KernelRequest("r1", 1000, "alice", "echo it", NoToolCall,
                          Mapping(<<>>), evidence)>> :
            evidence \in {None, "", "   ", "ok"}}

NoEvaluation == [op |-> "none", allowed |-> FALSE, violations |-> <<>>]

PolicyInit ==
    /\ p_policy = DefaultPolicy
    /\ p_request = ReqEcho
    /\ p_result = NoEvaluation

\* A kernel constructed and booted: state machine in IDLE, empty ledger.
BootedKernel ==
    [sm |-> transition(NewStateMachine, "IDLE").sm, ledger |-> <<>>,
     clock |-> InitialMs, receipt |-> NoReceipt, bundle |-> <<>>]

TwinInit ==
    /\ t_a = BootedKernel
    /\ t_b = BootedKernel
    /\ t_in = <<ReqEcho, ReqEcho>>
    /\ t_n = 0

\* No request: nothing is suspended in a tool handler.
NoRequest == KernelRequest(None, 0, None, None, NoToolCall, NoParams, None)

\* Receipt(request_id, status, decision, error) of the asynchronous kernel;
\* status "RAISED" stands for an exception that left submit.
AsyncReceipt(request_id, status, decision, error) ==
    [request_id |-> request_id, status |-> status, decision |-> decision,
     error |-> error]

NoObservation ==
    [op |-> "none", in_flight |-> FALSE, ok |-> FALSE, state |-> None,
     entries |-> 0]

\* AsyncBaseKernel.__init__: the state machine is taken to IDLE.
\* VirtualClock(): initial_ms = 0, nothing called yet.
ClockInit ==
    /\ c_ms = 0
    /\ c_max = 0
    /\ c_res = [op |-> "none", arg |-> 0, ok |-> TRUE, value |-> 0]

\* No submit_with_retry call made yet.
NoRetry ==
    [phase |-> "idle", request |-> NoRequest, max_retries |-> 0,
     attempt |-> 0, statuses |-> <<>>, last_error |-> None, entries |-> 0,
     receipt |-> AsyncReceipt(None, None, None, None)]

AsyncInit ==
    /\ a_sm = transition(NewStateMachine, "IDLE").sm
    /\ a_ledger = <<>>
    /\ a_lock = "free"
    /\ a_cur = NoRequest
    /\ a_receipt = AsyncReceipt(None, None, None, None)
    /\ a_obs = NoObservation
    /\ a_asked = <<>>
    /\ a_retry = NoRetry
    /\ a_n = 0

Init ==
    /\ hashseed \in {0, 1}
    /\ variant \in Variants
    /\ KernelInit
    /\ ReplayInit
    /\ MachineInit
    /\ DispatchInit
    /\ PolicyInit
    /\ TwinInit
    /\ AsyncInit
    /\ ClockInit

\* BaseKernel.boot
Boot ==
    /\ ~booted
    /\ LET r == transition(sm, "IDLE")
       IN /\ r.ok
          /\ sm' = r.sm
          /\ path' = <<"IDLE">>
    /\ booted' = TRUE
    /\ lastOp' = "boot"
    /\ UNCHANGED <<hashseed, variant, panicked, ledger, clock, receipt, invoked, invokedIn,
                   nSubmits, nLive, nHalts, bundle, rvars, mvars, dvars, pvars, tvars, avars, cvars>>

\* kernel.submit(request)
Submit ==
    /\ booted
    /\ nSubmits < MaxSubmits
    /\ \E in \in SubmitInputs :
         LET r == submit(sm, ledger, variant, clock, in[1], in[2])
         IN /\ sm' = r.sm
            /\ ledger' = r.ledger
            /\ receipt' = r.receipt
            /\ path' = r.path
            /\ invoked' = r.invoked
            /\ invokedIn' = r.invoked_in
            /\ panicked' = r.raised
    /\ lastOp' = IF sm.state = "HALTED" THEN "submit_halted" ELSE "submit"
    /\ nSubmits' = nSubmits + 1
    /\ nLive' = IF sm.state = "HALTED" THEN nLive ELSE nLive + 1
    /\ UNCHANGED <<hashseed, variant, booted, clock, nHalts, bundle, rvars, mvars,
                   dvars, pvars, tvars, avars, cvars>>

\* kernel.halt(reason)
Halt ==
    /\ booted
    /\ LET r == kernel_halt(sm, ledger, clock, "test halt")
       IN /\ sm' = r.sm
          /\ ledger' = r.ledger
          /\ receipt' = r.receipt
          /\ lastOp' = IF sm.state = "HALTED" THEN "halt_error" ELSE "halt"
          /\ nHalts' = IF sm.state = "HALTED" THEN nHalts ELSE nHalts + 1
          /\ path' = IF r.ok THEN <<"HALTED">> ELSE <<>>
    /\ invoked' = 0
    /\ invokedIn' = <<>>
    /\ UNCHANGED <<hashseed, variant, panicked, booted, clock, nSubmits, nLive, bundle,
                   rvars, mvars, dvars, pvars, tvars, avars, cvars>>

\* kernel.export_evidence()
ExportEvidence ==
    /\ booted
    /\ bundle' = <<ledger_export(ledger, KernelId, variant, clock)>>
    /\ lastOp' = "export"
    /\ UNCHANGED <<hashseed, variant, panicked, booted, sm, ledger, clock, receipt, path,
                   invoked, invokedIn,
                   nSubmits, nLive, nHalts, rvars, mvars, dvars, pvars, tvars, avars, cvars>>

Next == Boot \/ Submit \/ Halt \/ ExportEvidence

Spec == Init /\ [][Next]_vars

\* ------------------------------------------------- ledger and replay alone
\* What AuditLedger.append is given when the ledger is driven directly.
AppendInputs ==
    { [request_id |-> "req-001", actor |-> "alice", intent |-> "first",
       decision |-> "ALLOW", state_from |-> "IDLE", state_to |-> "IDLE",
       ts_ms |-> 1000, tool_name |-> None, params_hash |-> None,
       evidence_hash |-> None, error |-> None],
      [request_id |-> "req-002", actor |-> "bob", intent |-> "second",
       decision |-> "DENY", state_from |-> "IDLE", state_to |-> "IDLE",
       ts_ms |-> 2000, tool_name |-> "echo",
       params_hash |-> compute_hash_dict(HiParams),
       evidence_hash |-> compute_hash_str(Quote("ok")),
       error |-> "denied"] }

\* ledger.append(...)
LedgerAppend ==
    /\ r_phase = "idle"
    /\ Len(ledger) < MaxAppends
    /\ \E f \in AppendInputs : ledger' = ledger_append(ledger, f)
    /\ UNCHANGED <<hashseed, variant, panicked, booted, sm, clock, receipt, lastOp, path,
                   invoked, invokedIn,
                   nSubmits, nLive, nHalts, bundle, rvars, mvars, dvars, pvars, tvars, avars, cvars>>

\* The verifier is handed ledger.to_list() and, possibly, a root hash.
ReplayLoad ==
    /\ r_phase = "idle"
    /\ r_entries' = to_list(ledger)
    /\ r_expected' \in {None, root_hash(ledger), "wrong_hash"}
    /\ r_phase' = "loaded"
    /\ UNCHANGED <<kvars, mvars, dvars, pvars, tvars, r_mut, r_result, r_bundle,
                   avars, cvars>>

OptionalFields ==
    {"tool_name", "params_hash", "evidence_hash", "error", "permit_digest",
     "permit_verification", "proposal_hash"}

\* The values a field of an entry dictionary can be changed to.
TamperValues(entry, field) ==
    IF field = "ts_ms" THEN {entry.ts_ms + 1}
    ELSE IF field = "permit_denial_reasons" THEN {<<"forged">>}
    ELSE ({"tampered"}
          \cup (IF field \in {"prev_hash", "entry_hash"}
                THEN {Zeros64} ELSE {})
          \cup (IF field \in OptionalFields THEN {None} ELSE {}))
         \ {entry[field]}

\* One field of one serialized entry is changed.
ReplayTamper ==
    /\ r_phase = "loaded"
    /\ \E i \in 1..Len(r_entries) :
         \E field \in DOMAIN r_entries[i] :
           \E value \in TamperValues(r_entries[i], field) :
             /\ r_entries' = [r_entries EXCEPT ![i][field] = value]
             /\ r_mut' = [index |-> i, field |-> field]
    /\ r_phase' = "tampered"
    /\ UNCHANGED <<kvars, mvars, dvars, pvars, tvars, r_expected, r_result,
                   r_bundle, avars, cvars>>

\* replay_and_verify(entries, expected_root_hash)
ReplayVerify ==
    /\ r_phase \in {"loaded", "tampered"}
    /\ LET r == replay_and_verify(r_entries, r_expected)
       IN r_result' = [done |-> TRUE, is_valid |-> r.is_valid,
                       errors |-> r.errors]
    /\ r_phase' = "verified"
    /\ UNCHANGED <<kvars, mvars, dvars, pvars, tvars, r_entries, r_expected,
                   r_mut, r_bundle, avars, cvars>>

\* The bundle dictionary handed to verify_evidence_bundle: the entries and,
\* when one is given, the root hash.
BundleDict(entries, expected) ==
    IF expected = None
    THEN [ledger_entries |-> entries, kernel_id |-> KernelId]
    ELSE [ledger_entries |-> entries, kernel_id |-> KernelId,
          root_hash |-> expected]

\* verify_evidence_bundle(bundle)
ReplayVerifyBundle ==
    /\ r_phase \in {"loaded", "tampered"}
    /\ LET r == verify_evidence_bundle(BundleDict(r_entries, r_expected))
       IN /\ r_bundle' = [done |-> TRUE, is_valid |-> r.is_valid,
                          entries_verified |-> r.entries_verified,
                          errors |-> r.errors,
                          computed_root_hash |-> r.computed_root_hash]
          /\ r_result' = [done |-> TRUE, is_valid |-> r.is_valid,
                          errors |-> r.errors]
    /\ r_phase' = "verified"
    /\ UNCHANGED <<kvars, mvars, dvars, pvars, tvars, r_entries, r_expected,
                   r_mut, avars, cvars>>

LedgerNext ==
    \/ LedgerAppend
    \/ ReplayLoad
    \/ ReplayTamper
    \/ ReplayVerify
    \/ ReplayVerifyBundle

SpecLedger == Init /\ [][LedgerNext]_vars

\* ------------------------------------------------ the state machine alone
\* machine.transition(to_state)
MachineTransition ==
    /\ m_sm.transition_count < MaxTransitions
    /\ \E to_state \in KernelStates :
         LET r == transition(m_sm, to_state)
         IN /\ m_sm' = r.sm
            /\ m_res' = [op |-> "transition", to |-> to_state, ok |-> r.ok,
                         before |-> m_sm,
                         returned |-> IF r.ok THEN r.prev ELSE None]
    /\ UNCHANGED <<kvars, rvars, dvars, pvars, tvars, avars, cvars>>

\* machine.halt()
MachineHalt ==
    /\ m_sm.transition_count < MaxTransitions
    /\ LET r == sm_halt(m_sm)
       IN /\ m_sm' = r.sm
          /\ m_res' = [op |-> "halt", to |-> "HALTED", ok |-> r.ok,
                       before |-> m_sm,
                       returned |-> IF r.ok THEN r.prev ELSE None]
    /\ UNCHANGED <<kvars, rvars, dvars, pvars, tvars, avars, cvars>>

\* machine.reset(to_state)
MachineReset ==
    /\ \E to_state \in KernelStates :
         /\ m_sm' = sm_reset(m_sm, to_state)
         /\ m_res' = [op |-> "reset", to |-> to_state, ok |-> TRUE,
                      before |-> m_sm, returned |-> None]
    /\ UNCHANGED <<kvars, rvars, dvars, pvars, tvars, avars, cvars>>

MachineNext == MachineTransition \/ MachineHalt \/ MachineReset

SpecMachine == Init /\ [][MachineNext]_vars

\* ---------------------------------------------------- the dispatcher alone
\* registry.register(name, handler): a ToolError when the name is taken.
Register ==
    /\ \E name \in ToolNames, handler \in Handlers :
         LET r == register(registered, name, handler)
         IN /\ registered' = r.reg
            /\ reg_res' = [op |-> "register", name |-> name,
                           handler |-> handler, ok |-> r.ok]
    /\ UNCHANGED <<kvars, rvars, mvars, pvars, tvars, d_call, d_res, avars, cvars>>

\* registry.unregister(name): a ToolError when the name is not registered.
Unregister ==
    /\ \E name \in ToolNames :
         LET r == unregister(registered, name)
         IN /\ registered' = r.reg
            /\ reg_res' = [op |-> "unregister", name |-> name,
                           handler |-> None, ok |-> r.ok]
    /\ UNCHANGED <<kvars, rvars, mvars, pvars, tvars, d_call, d_res, avars, cvars>>

AddParams == Mapping(<< <<"a", "1">>, <<"b", "2">> >>)

\* The tool calls execute is given.
ToolCalls ==
    {ToolCall(name, params) :
        name \in {"", "echo", "add", "boom", "missing"},
        params \in {Mapping(<<>>), HiParams, AddParams, NotAMapping}}

\* dispatcher.execute(tool_call)
DispatchExecute ==
    /\ \E call \in ToolCalls :
         /\ d_call' = call
         /\ d_res' = execute(list_tools(registered), call)
    /\ UNCHANGED <<kvars, rvars, mvars, pvars, tvars, registered, reg_res, avars, cvars>>

DispatchNext == Register \/ Unregister \/ DispatchExecute

SpecDispatch == Init /\ [][DispatchNext]_vars


\* ------------------------------------------- the evaluator and hooks alone
\* The evaluator is handed another policy.
SetPolicy ==
    /\ p_policy' \in PolicyInputs
    /\ p_request' = ReqEcho
    /\ p_result' = NoEvaluation
    /\ UNCHANGED <<kvars, rvars, mvars, dvars, tvars, avars, cvars>>

\* evaluate_policy(request, policy)
Evaluate ==
    /\ \E request \in EvalRequests :
         LET r == evaluate_policy(request, p_policy)
         IN /\ p_request' = request
            /\ p_result' = [op |-> "evaluate", allowed |-> r.allowed,
                            violations |-> r.violations]
    /\ UNCHANGED <<kvars, rvars, mvars, dvars, tvars, p_policy, avars, cvars>>

\* kernel._check_variant_requirements(request) of a kernel of the variant v
CheckVariant ==
    /\ p_policy = DefaultPolicy
    /\ \E in \in HookInputs :
         LET errors == _check_variant_requirements(in[1], in[2])
         IN /\ p_request' = in[2]
            /\ p_result' = [op |-> in[1], allowed |-> errors = <<>>,
                            violations |-> errors]
    /\ UNCHANGED <<kvars, rvars, mvars, dvars, tvars, p_policy, avars, cvars>>

PolicyNext == SetPolicy \/ Evaluate \/ CheckVariant

\* One interpreter, either hash seed; the kernel of the other specifications
\* is left as constructed.
PolicySpecInit ==
    /\ hashseed \in {0, 1}
    /\ variant = "strict"
    /\ KernelInit
    /\ ReplayInit
    /\ MachineInit
    /\ DispatchInit
    /\ PolicyInit
    /\ TwinInit
    /\ AsyncInit
    /\ ClockInit

SpecPolicy == PolicySpecInit /\ [][PolicyNext]_vars


\* ------------------------------------------------ two kernels side by side
\* The same mapping with its items inserted in the opposite order; Python
\* compares the two equal.
Reinserted(params) ==
    [params EXCEPT !.kv = Reverse(@), !.constraints.kv = Reverse(@)]

\* An equal request whose mappings were built in another insertion order.
EqualRequest(request) ==
    [request EXCEPT !.params = Reinserted(@),
                    !.tool_call.params = Reinserted(@)]

\* The requests the two kernels are given.
TwinRequests ==
    { ReqEcho,
      KernelRequest("r7", 1000, "alice", "add it", ToolCall("add", AddParams),
                    FullConstraints, "ok"),
      \* two constraints that the dual-channel hook reports as empty
      KernelRequest("r8", 1000, "alice", "echo it",
                    ToolCall("echo", HiParams),
                    WithConstraints(<< <<"non_goals", "">>, <<"scope", "">>,
                                       <<"success_criteria", "text">> >>),
                    "ok"),
      KernelRequest("r5", 1000, "alice", "just talk", NoToolCall,
                    FullConstraints, None) }

\* The same request, or an equal one, for either kernel, and the same fault.
TwinInputs ==
    {<<r, EqualRequest(r), "none">> : r \in TwinRequests}
    \cup {<<ReqEcho, ReqEcho, f>> : f \in Faults}

\* kernel.submit(request) on one of the two kernels
twin_submit(k, request, fault) ==
    LET r == submit(k.sm, k.ledger, variant, k.clock, request, fault)
    IN [k EXCEPT !.sm = r.sm, !.ledger = r.ledger, !.receipt = r.receipt]

\* kernel.halt(reason) on one of the two kernels
twin_halt(k) ==
    LET r == kernel_halt(k.sm, k.ledger, k.clock, "test halt")
    IN [k EXCEPT !.sm = r.sm, !.ledger = r.ledger, !.receipt = r.receipt]

\* kernel.export_evidence() on one of the two kernels
twin_export(k) ==
    [k EXCEPT !.bundle = <<ledger_export(k.ledger, KernelId, variant,
                                         k.clock)>>]

\* Both kernels are given the next request of the sequence.
TwinSubmit ==
    /\ t_n < MaxSubmits
    /\ \E in \in TwinInputs :
         /\ t_a' = twin_submit(t_a, in[1], in[3])
         /\ t_b' = twin_submit(t_b, in[2], in[3])
         /\ t_in' = <<in[1], in[2]>>
    /\ t_n' = t_n + 1
    /\ UNCHANGED <<kvars, rvars, mvars, dvars, pvars, avars, cvars>>

\* Both kernels are halted.
TwinHalt ==
    /\ ~is_halted(t_a.sm)
    /\ t_a' = twin_halt(t_a)
    /\ t_b' = twin_halt(t_b)
    /\ UNCHANGED <<kvars, rvars, mvars, dvars, pvars, t_in, t_n, avars, cvars>>

\* Both kernels export their evidence.
TwinExport ==
    /\ t_a' = twin_export(t_a)
    /\ t_b' = twin_export(t_b)
    /\ UNCHANGED <<kvars, rvars, mvars, dvars, pvars, t_in, t_n, avars, cvars>>

\* The clocks of both kernels follow the same schedule.
TwinTick ==
    /\ t_a.clock < InitialMs + 1000 * MaxTicks
    /\ t_a' = [t_a EXCEPT !.clock = @ + 1000]
    /\ t_b' = [t_b EXCEPT !.clock = @ + 1000]
    /\ UNCHANGED <<kvars, rvars, mvars, dvars, pvars, t_in, t_n, avars, cvars>>

TwinNext == TwinSubmit \/ TwinHalt \/ TwinExport \/ TwinTick

SpecTwin == Init /\ [][TwinNext]_vars


\* -------------------------------------------------- the asynchronous kernel
\* AsyncBaseKernel calls self._state_machine.transition_to(state) and reads
\* .current_state; StateMachine has transition(state) and .state, which the
\* two are read as.  An awaited coroutine that does not itself suspend runs
\* on without yielding to the event loop, so a submit runs from the moment it
\* holds the lock to the tool handler, and from the handler's return to its
\* end, without any other call in between.

\* The policy and the tool names the asynchronous kernel is constructed with.
AsyncPolicy ==
    JurisdictionPolicy({"alice"}, {"echo", "missing"}, DefaultMaxIntentLength,
                       FALSE)

\* The running context of _process_request; exc names the exception that is
\* propagating to its except clauses.
AsyncCtx(m, entries) ==
    [sm |-> m, ledger |-> entries, asked |-> <<>>,
     exc |-> IF is_halted(m) THEN "StateError" ELSE "none"]

\* raise exc
AsyncRaise(c, exc) == IF c.exc = "none" THEN [c EXCEPT !.exc = exc] ELSE c

\* self._state_machine.transition_to(to_state)
AsyncStepTo(c, to_state) ==
    IF c.exc # "none" THEN c
    ELSE LET r == transition(c.sm, to_state)
             asked == Append(c.asked, <<c.sm.state, to_state>>)
         IN IF r.ok THEN [c EXCEPT !.sm = r.sm, !.asked = asked]
            ELSE [c EXCEPT !.exc = "StateError", !.asked = asked]

\* self._ledger.append(self._create_audit_entry(...))
AsyncAppend(c, request, decision, error) ==
    IF c.exc # "none" THEN c
    ELSE [c EXCEPT !.ledger =
              Append(@, [request_id |-> request.request_id,
                         decision |-> decision, error |-> error])]

\* The except clauses of _process_request: back to IDLE and a DENY receipt;
\* a transition_to that is refused there leaves submit as an exception.
async_except(c, request) ==
    LET r == transition(c.sm, "IDLE")
        asked == Append(c.asked, <<c.sm.state, "IDLE">>)
    IN IF r.ok
       THEN [sm |-> r.sm, ledger |-> c.ledger, suspended |-> FALSE,
             asked |-> asked,
             receipt |->
                 AsyncReceipt(request.request_id,
                              IF c.exc = "ValidationError" THEN "INVALID"
                              ELSE "ERROR",
                              "DENY", c.exc)]
       ELSE [sm |-> c.sm, ledger |-> c.ledger, suspended |-> FALSE,
             asked |-> asked,
             receipt |-> AsyncReceipt(request.request_id, "RAISED", None,
                                      "StateError")]

\* return Receipt(...) at the end of a path of the try block
async_return(c, request, status, decision, error) ==
    IF c.exc # "none" THEN async_except(c, request)
    ELSE [sm |-> c.sm, ledger |-> c.ledger, suspended |-> FALSE,
          asked |-> c.asked,
          receipt |-> AsyncReceipt(request.request_id, status, decision,
                                   error)]

\* AsyncBaseKernel._validate_request
async_validate(request) ==
    IF request.request_id = "" THEN <<"request_id is required">>
    ELSE IF request.actor = "" THEN <<"actor is required">>
    ELSE IF request.intent = "" THEN <<"intent is required">>
    ELSE <<>>

\* AsyncBaseKernel._arbitrate_request: the reason of a DENY, None for ALLOW;
\* "AttributeError" stands for the read of policy.require_tool_call, a field
\* JurisdictionPolicy does not have.
async_arbitrate(request, policy) ==
    IF request.actor \notin policy.allowed_actors
    THEN "Actor " \o request.actor \o " not allowed"
    ELSE IF request.tool_call.present
            /\ request.tool_call.name \notin policy.allowed_tools
    THEN "Tool " \o request.tool_call.name \o " not allowed"
    ELSE IF ~request.tool_call.present THEN "AttributeError"
    ELSE IF Len(request.intent) > policy.max_intent_length
    THEN "Intent exceeds max length "
         \o ToString(policy.max_intent_length)
    ELSE None

\* _process_request from AUDITING on, once _execute_request has returned.
async_finish(c, request, error) ==
    async_return(
        AsyncStepTo(AsyncAppend(AsyncStepTo(c, "AUDITING"), request, "ALLOW",
                                error),
                    "IDLE"),
        request, IF error = None THEN "ACCEPTED" ELSE "ERROR", "ALLOW", error)

\* _process_request up to the await of the tool handler: suspended = TRUE
\* when it stops there, in EXECUTING and holding the lock.
async_begin(m, entries, request, policy, registry) ==
    LET c1 == AsyncStepTo(AsyncCtx(m, entries), "VALIDATING")
        c1v == IF c1.exc = "none" /\ async_validate(request) # <<>>
               THEN AsyncRaise(c1, "ValidationError") ELSE c1
        c2 == AsyncStepTo(c1v, "ARBITRATING")
        reason == async_arbitrate(request, policy)
        c3 == AsyncStepTo(c2, "EXECUTING")
    IN IF c2.exc # "none" THEN async_except(c2, request)
       ELSE IF reason = "AttributeError"
       THEN async_except(AsyncRaise(c2, "AttributeError"), request)
       ELSE IF reason # None
       THEN async_return(
                AsyncStepTo(AsyncAppend(c2, request, "DENY", reason), "IDLE"),
                request, "DENIED", "DENY", reason)
       ELSE IF c3.exc # "none" THEN async_except(c3, request)
       ELSE IF request.tool_call.name \notin registry
       THEN async_finish(c3, request,
                         "Tool " \o request.tool_call.name \o " not found")
       ELSE [sm |-> c3.sm, ledger |-> c3.ledger, suspended |-> TRUE,
             asked |-> c3.asked,
             receipt |-> AsyncReceipt(None, None, None, None)]

\* The requests the asynchronous kernel is given.
AsyncRequests ==
    { ReqEcho,
      \* a tool the policy allows and the registry does not hold
      KernelRequest("r6", 1000, "alice", "use it",
                    ToolCall("missing", Mapping(<<>>)), FullConstraints, "ok"),
      \* an actor the policy does not allow
      KernelRequest("r9", 1000, "mallory", "echo it",
                    ToolCall("echo", HiParams), FullConstraints, "ok"),
      \* intent only
      KernelRequest("r5", 1000, "alice", "just talk", NoToolCall,
                    FullConstraints, "ok"),
      \* no request_id
      KernelRequest("", 1000, "alice", "echo it", ToolCall("echo", HiParams),
                    FullConstraints, "ok") }

\* What the awaited tool handler ends with: a result (None) or an error.
HandlerOutcomes == {None, "handler failed"}

\* await kernel.submit(request): the lock is taken and _process_request runs
\* up to the tool handler, or to its end when it does not reach one.
AsyncSubmit ==
    /\ a_lock = "free"
    /\ a_n < MaxSubmits
    /\ \E request \in AsyncRequests :
         LET r == async_begin(a_sm, a_ledger, request, AsyncPolicy,
                              DefaultRegistry)
         IN /\ a_sm' = r.sm
            /\ a_ledger' = r.ledger
            /\ a_lock' = IF r.suspended THEN "submit" ELSE "free"
            /\ a_cur' = IF r.suspended THEN request ELSE NoRequest
            /\ a_asked' = r.asked
            /\ a_receipt' = IF r.suspended THEN a_receipt ELSE r.receipt
    /\ a_n' = a_n + 1
    /\ UNCHANGED <<kvars, rvars, mvars, dvars, pvars, tvars, a_obs, a_retry, cvars>>

\* The tool handler returns: the suspended submit runs to its end and the
\* lock is released.
AsyncResume ==
    /\ a_lock = "submit"
    /\ \E error \in HandlerOutcomes :
         LET c == [sm |-> a_sm, ledger |-> a_ledger, asked |-> a_asked,
                   exc |-> "none"]
             r == async_finish(c, a_cur, error)
         IN /\ a_sm' = r.sm
            /\ a_ledger' = r.ledger
            /\ a_receipt' = r.receipt
            /\ a_asked' = r.asked
    /\ a_lock' = "free"
    /\ a_cur' = NoRequest
    /\ UNCHANGED <<kvars, rvars, mvars, dvars, pvars, tvars, a_obs, a_retry,
                   a_n, cvars>>

\* What a halt or export call meets: whether a submit is in flight, the
\* state and the number of entries it finds.
Observation(op, ok) ==
    [op |-> op, in_flight |-> a_lock # "free", ok |-> ok,
     state |-> a_sm.state, entries |-> Len(a_ledger)]

\* kernel.halt(): no lock is taken.
AsyncHalt ==
    /\ LET r == transition(a_sm, "HALTED")
       IN /\ a_sm' = r.sm
          /\ a_obs' = Observation("halt", r.ok)
    /\ UNCHANGED <<kvars, rvars, mvars, dvars, pvars, tvars, a_ledger, a_lock,
                   a_cur, a_receipt, a_asked, a_retry, a_n, cvars>>

\* kernel.export_evidence(): no lock is taken.
AsyncExport ==
    /\ a_obs' = Observation("export_evidence", TRUE)
    /\ UNCHANGED <<kvars, rvars, mvars, dvars, pvars, tvars, a_sm, a_ledger,
                   a_lock, a_cur, a_receipt, a_asked, a_retry, a_n, cvars>>

\* await kernel.halt_async(): waits for the lock, then halts.
AsyncHaltLocked ==
    /\ a_lock = "free"
    /\ LET r == transition(a_sm, "HALTED")
       IN /\ a_sm' = r.sm
          /\ a_obs' = Observation("halt_async", r.ok)
    /\ UNCHANGED <<kvars, rvars, mvars, dvars, pvars, tvars, a_ledger, a_lock,
                   a_cur, a_receipt, a_asked, a_retry, a_n, cvars>>

\* await kernel.export_evidence_async(): waits for the lock, then exports.
AsyncExportLocked ==
    /\ a_lock = "free"
    /\ a_obs' = Observation("export_evidence_async", TRUE)
    /\ UNCHANGED <<kvars, rvars, mvars, dvars, pvars, tvars, a_sm, a_ledger,
                   a_lock, a_cur, a_receipt, a_asked, a_retry, a_n, cvars>>

\* ---------------------------------------------------------- submit_with_retry
MaxRetries == 2

\* The body of the for loop of submit_with_retry after kernel.submit ended
\* with receipt rc (status "RAISED": it ended by an exception): return the
\* receipt, go on to the next attempt, or give up after the last one.
retry_after(rt, rc) ==
    LET statuses == Append(rt.statuses, rc.status)
    IN IF rc.status \notin {"ERROR", "RAISED"}
       THEN [rt EXCEPT !.phase = "done", !.statuses = statuses,
                       !.receipt = rc]
       ELSE IF rt.attempt < rt.max_retries
       THEN [rt EXCEPT !.phase = "attempt", !.statuses = statuses,
                       !.attempt = @ + 1, !.last_error = rc.error]
       ELSE [rt EXCEPT !.phase = "done", !.statuses = statuses,
                       !.last_error = rc.error,
                       !.receipt =
                           AsyncReceipt(rt.request.request_id, "ERROR", "DENY",
                                        "Max retries exceeded: " \o rc.error)]

\* submit_with_retry(kernel, request, max_retries) is called.
RetryStart ==
    /\ a_retry.phase = "idle"
    /\ \E request \in AsyncRequests, max_retries \in 0..MaxRetries :
         a_retry' = [NoRetry EXCEPT !.phase = "attempt", !.request = request,
                                    !.max_retries = max_retries,
                                    !.entries = Len(a_ledger)]
    /\ UNCHANGED <<kvars, rvars, mvars, dvars, pvars, tvars, a_sm, a_ledger,
                   a_lock, a_cur, a_receipt, a_obs, a_asked, a_n, cvars>>

\* One attempt: await kernel.submit(request), up to the tool handler or to
\* the end of the submit.
RetryAttempt ==
    /\ a_retry.phase = "attempt"
    /\ a_lock = "free"
    /\ LET r == async_begin(a_sm, a_ledger, a_retry.request, AsyncPolicy,
                            DefaultRegistry)
       IN /\ a_sm' = r.sm
          /\ a_ledger' = r.ledger
          /\ a_asked' = r.asked
          /\ a_lock' = IF r.suspended THEN "submit" ELSE "free"
          /\ a_cur' = IF r.suspended THEN a_retry.request ELSE NoRequest
          /\ a_receipt' = IF r.suspended THEN a_receipt ELSE r.receipt
          /\ a_retry' = IF r.suspended
                        THEN [a_retry EXCEPT !.phase = "suspended"]
                        ELSE retry_after(a_retry, r.receipt)
    /\ a_n' = a_n + 1
    /\ UNCHANGED <<kvars, rvars, mvars, dvars, pvars, tvars, a_obs, cvars>>

\* The tool handler of the attempt returns and the attempt's submit ends.
RetryResume ==
    /\ a_retry.phase = "suspended"
    /\ a_lock = "submit"
    /\ \E error \in HandlerOutcomes :
         LET c == [sm |-> a_sm, ledger |-> a_ledger, asked |-> a_asked,
                   exc |-> "none"]
             r == async_finish(c, a_cur, error)
         IN /\ a_sm' = r.sm
            /\ a_ledger' = r.ledger
            /\ a_receipt' = r.receipt
            /\ a_asked' = r.asked
            /\ a_retry' = retry_after(a_retry, r.receipt)
    /\ a_lock' = "free"
    /\ a_cur' = NoRequest
    /\ UNCHANGED <<kvars, rvars, mvars, dvars, pvars, tvars, a_obs, a_n, cvars>>

RetryNext ==
    \/ RetryStart
    \/ RetryAttempt
    \/ RetryResume
    \/ AsyncHalt

SpecRetry == Init /\ [][RetryNext]_vars

AsyncNext ==
    \/ AsyncSubmit
    \/ AsyncResume
    \/ AsyncHalt
    \/ AsyncExport
    \/ AsyncHaltLocked
    \/ AsyncExportLocked

SpecAsync == Init /\ [][AsyncNext]_vars


\* ------------------------------------------------------------- VirtualClock
MaxClockMs == 6

\* A set() that takes any value.
clock_set_mut(ms, ts_ms) == [ok |-> TRUE, ms |-> ts_ms]

\* VirtualClock.advance: ok = FALSE stands for the ValueError raised.
clock_advance(ms, delta_ms) ==
    IF delta_ms < 0 THEN [ok |-> FALSE, ms |-> ms]
    ELSE [ok |-> TRUE, ms |-> ms + delta_ms]

\* VirtualClock.set
clock_set(ms, ts_ms) ==
    IF ts_ms < ms THEN [ok |-> FALSE, ms |-> ms]
    ELSE [ok |-> TRUE, ms |-> ts_ms]

\* The arguments given to advance and set: negative, zero and positive.
ClockArgs == (0 - 2)..MaxClockMs

\* clock.now_ms()
ClockNow ==
    /\ c_max' = IF c_ms > c_max THEN c_ms ELSE c_max
    /\ c_res' = [op |-> "now_ms", arg |-> 0, ok |-> TRUE, value |-> c_ms]
    /\ UNCHANGED <<kvars, rvars, mvars, dvars, pvars, tvars, avars, c_ms>>

\* clock.advance(delta_ms)
ClockAdvance ==
    /\ \E delta_ms \in ClockArgs :
         LET r == clock_advance(c_ms, delta_ms)
         IN /\ r.ms <= MaxClockMs
            /\ c_ms' = r.ms
            /\ c_res' = [op |-> "advance", arg |-> delta_ms, ok |-> r.ok,
                         value |-> c_ms]
    /\ UNCHANGED <<kvars, rvars, mvars, dvars, pvars, tvars, avars, c_max>>

\* clock.set(ts_ms)
ClockSet ==
    /\ \E ts_ms \in ClockArgs :
         LET r == clock_set(c_ms, ts_ms)
         IN /\ c_ms' = r.ms
            /\ c_res' = [op |-> "set", arg |-> ts_ms, ok |-> r.ok,
                         value |-> c_ms]
    /\ UNCHANGED <<kvars, rvars, mvars, dvars, pvars, tvars, avars, c_max>>

ClockNext == ClockNow \/ ClockAdvance \/ ClockSet

SpecClock == Init /\ [][ClockNext]_vars

\* ------------------------------------------------------------------ claims
HaltEntries(entries) == {i \in 1..Len(entries) : entries[i].decision = "HALT"}

\* C1 as stated: after any sequence of submit calls, some of them possibly
\* made after halt, the ledger holds one entry per submit call, plus one if
\* halt was called.
C1_EverySubmitAppends ==
    booted => Len(ledger) = nSubmits + (IF nHalts > 0 THEN 1 ELSE 0)

\* C1, amended: the ledger holds one entry per submit call made while the
\* kernel was not halted, plus one for the halt; a submit call made after
\* halt appends nothing.
C1_LiveSubmitsAppend ==
    booted => Len(ledger) = nLive + nHalts

C1_Witness ==
    /\ lastOp = "submit_halted"
    /\ nLive >= 1
    /\ nHalts = 1
    /\ Len(ledger) = nLive + 1
    /\ nSubmits > nLive

\* C2: the first ledger entry has the 64-zero genesis hash as prev_hash, and
\* every later entry has the entry_hash of the entry before it as prev_hash.
C2_HashChain ==
    /\ Len(ledger) > 0 => ledger[1].prev_hash = Zeros64
    /\ \A i \in 2..Len(ledger) : ledger[i].prev_hash = ledger[i - 1].entry_hash

C2_Witness ==
    /\ Len(ledger) >= 3
    /\ ledger[1].prev_hash = Zeros64
    /\ ledger[3].prev_hash = ledger[2].entry_hash
    /\ ledger[2].entry_hash # ledger[1].entry_hash

\* C3: replaying the entries of an exported evidence bundle against the
\* bundle's root_hash reports the bundle valid, with no errors.
C3_ExportReplays ==
    bundle # <<>> =>
        LET r == replay_and_verify(to_list(bundle[1].ledger_entries),
                                   bundle[1].root_hash)
        IN r.is_valid /\ r.errors = <<>>

C3_Witness ==
    /\ bundle # <<>>
    /\ Len(bundle[1].ledger_entries) >= 2
    /\ bundle[1].root_hash = bundle[1].ledger_entries[2].entry_hash
    /\ verify_evidence_bundle(bundle[1]).is_valid

\* C4 as stated: a valid ledger in which one field of one entry dictionary
\* was changed (prev_hash, entry_hash, an optional field or a permit field
\* included) is reported invalid by replay.
C4_AnyMutationDetected ==
    (r_phase = "verified" /\ r_mut.index > 0) => ~r_result.is_valid

\* C5 as stated: in a valid ledger of three entries whose intent of entry 1
\* was changed, replay reports an error for entry 1 and a prev_hash mismatch
\* for an entry after it.
C5_DownstreamMismatch ==
    (r_phase = "verified" /\ Len(r_entries) = 3
        /\ r_mut = [index |-> 2, field |-> "intent"]) =>
        /\ ~r_result.is_valid
        /\ \E j \in 1..Len(r_result.errors) : r_result.errors[j].entry = 1
        /\ \E j \in 1..Len(r_result.errors) :
             /\ r_result.errors[j].entry > 1
             /\ r_result.errors[j].what = "prev_hash mismatch"

\* C5, amended: in a valid ledger of three entries whose intent of entry 1
\* was changed, replay is invalid and reports the entry_hash mismatch of
\* entry 1; it reports no prev_hash mismatch and no error for entry 2,
\* because the chain continues from the entry_hash each entry claims.
C5_OnlyEntryHashMismatch ==
    (r_phase = "verified" /\ Len(r_entries) = 3
        /\ r_mut = [index |-> 2, field |-> "intent"]) =>
        /\ ~r_result.is_valid
        /\ \E j \in 1..Len(r_result.errors) :
             r_result.errors[j] = ReplayError(1, "entry_hash mismatch")
        /\ \A j \in 1..Len(r_result.errors) :
             /\ r_result.errors[j].what # "prev_hash mismatch"
             /\ r_result.errors[j].entry \in {1, -1}

C5_Witness ==
    /\ r_phase = "verified"
    /\ Len(r_entries) = 3
    /\ r_mut = [index |-> 2, field |-> "intent"]
    /\ r_entries[2].intent = "tampered"
    /\ r_result.errors = <<ReplayError(1, "entry_hash mismatch")>>

\* The hash the root check of replay compares: the entry_hash of the last
\* entry, the genesis hash when there is none.
LastHash(entries) ==
    IF entries = <<>> THEN Zeros64 ELSE entries[Len(entries)].entry_hash

\* C6 as stated: when an expected root hash is given and the entry_hash of
\* the last entry (the genesis hash for an empty sequence) differs from it,
\* replay records a root hash mismatch and is invalid, for every input.
C6_RootMismatchRecorded ==
    (r_phase = "verified" /\ r_expected # None
        /\ LastHash(r_entries) # r_expected) =>
        /\ ~r_result.is_valid
        /\ \E j \in 1..Len(r_result.errors) :
             r_result.errors[j] = ReplayError(-1, "Root hash mismatch")

\* C7: a submit call on a halted kernel returns a DENY receipt with error
\* "kernel halted" and changes neither the ledger nor the state machine.
C7_HaltedSubmitDenied ==
    [][(sm.state = "HALTED" /\ nSubmits' = nSubmits + 1) =>
          /\ receipt'.decision = "DENY"
          /\ receipt'.error = "kernel halted"
          /\ ledger' = ledger
          /\ sm' = sm]_vars

C7_Witness ==
    /\ lastOp = "submit_halted"
    /\ receipt.error = "kernel halted"
    /\ sm.state = "HALTED"
    /\ Len(ledger) >= 2

\* C8 as stated: the receipt of a submit call made after halt carries the
\* decision HALT.
C8_HaltedSubmitDecisionHalt ==
    lastOp = "submit_halted" => receipt.decision = "HALT"

\* C8, amended: the receipt of a submit call made after halt has status
\* REJECTED and decision DENY; the decision HALT is carried only by the
\* receipt and the ledger entry of the halt call itself.
C8_HaltedSubmitRejected ==
    /\ lastOp = "submit_halted" =>
          receipt.status = "REJECTED" /\ receipt.decision = "DENY"
    /\ receipt.decision = "HALT" => lastOp \in {"halt", "export"}

C8_Witness ==
    /\ lastOp = "submit_halted"
    /\ receipt.status = "REJECTED"
    /\ receipt.decision = "DENY"
    /\ HaltEntries(ledger) # {}

\* C9: a halt call on a booted kernel that is not halted leaves the state
\* HALTED, appends exactly one ledger entry, whose decision is HALT and which
\* is the only HALT entry of the ledger, and returns a receipt with decision
\* HALT.
C9_HaltOnce ==
    [][(booted /\ sm.state # "HALTED" /\ nHalts' = nHalts + 1) =>
          /\ sm'.state = "HALTED"
          /\ Len(ledger') = Len(ledger) + 1
          /\ SubSeq(ledger', 1, Len(ledger)) = ledger
          /\ ledger'[Len(ledger')].decision = "HALT"
          /\ HaltEntries(ledger') = {Len(ledger')}
          /\ receipt'.decision = "HALT"]_vars

C9_Witness ==
    /\ lastOp = "halt"
    /\ sm.state = "HALTED"
    /\ Len(ledger) >= 2
    /\ HaltEntries(ledger) = {Len(ledger)}
    /\ receipt.decision = "HALT"

\* C10: once a call has returned, whatever its outcome (allowed, denied,
\* tool failure or internal error), the state of a booted kernel is IDLE or
\* HALTED.
C10_RestsIdleOrHalted ==
    booted => sm.state \in {"IDLE", "HALTED"}

C10_Witness ==
    /\ lastOp = "submit"
    /\ receipt.status = "FAILED"
    /\ receipt.error = "internal"
    /\ sm.state = "HALTED"
    /\ nHalts = 0

\* The receipt in hand is the one of a submit call.
OfSubmit == lastOp \in {"submit", "submit_halted"}

\* Each state of p is entered by a transition of the table, starting at from.
LegalPath(from, p) ==
    \A i \in 1..Len(p) :
        p[i] \in ALLOWED_TRANSITIONS[IF i = 1 THEN from ELSE p[i - 1]]

\* C11 as stated: the (state_from, state_to) pair of every receipt returned
\* by submit is a member of the transition table.
C11_ReceiptPairInTable ==
    OfSubmit => receipt.state_to \in ALLOWED_TRANSITIONS[receipt.state_from]

\* C11, amended: the receipt of a submit call carries the state on entry as
\* state_from and the state on return as state_to; the pair is (IDLE, IDLE),
\* (IDLE, HALTED) after an internal error, or (HALTED, HALTED) on a halted
\* kernel, and on a kernel that is not halted state_to is reached from
\* state_from by a chain of transitions of the table.  (IDLE, IDLE) and
\* (HALTED, HALTED) are not themselves members of the table.
C11_ReceiptPairEndpoints ==
    [][nSubmits' = nSubmits + 1 =>
          /\ receipt'.state_from = sm.state
          /\ receipt'.state_to = sm'.state
          /\ <<receipt'.state_from, receipt'.state_to>> \in
                 {<<"IDLE", "IDLE">>, <<"IDLE", "HALTED">>,
                  <<"HALTED", "HALTED">>}
          /\ sm.state # "HALTED" =>
                 /\ path' # <<>>
                 /\ LegalPath(sm.state, path')
                 /\ path'[Len(path')] = receipt'.state_to]_vars

C11_Witness ==
    /\ lastOp = "submit"
    /\ receipt.status = "ACCEPTED"
    /\ receipt.state_from = "IDLE"
    /\ receipt.state_to = "IDLE"
    /\ path = <<"VALIDATING", "ARBITRATING", "EXECUTING", "AUDITING", "IDLE">>

\* C12: every successful transition into IDLE starts in BOOTING or in
\* AUDITING, so a machine that left IDLE is in AUDITING immediately before
\* it is IDLE again.
C12_IdleAfterAuditing ==
    (m_res.op = "transition" /\ m_res.ok /\ m_sm.state = "IDLE") =>
        m_res.before.state \in {"BOOTING", "AUDITING"}

C12_Witness ==
    /\ m_res.op = "transition"
    /\ m_res.ok
    /\ m_sm.state = "IDLE"
    /\ m_res.before.state = "AUDITING"
    /\ m_sm.transition_count >= 4

\* C13: transition(to) succeeds exactly when the current state is not
\* terminal and (current, to) is in the table; on success the state is to,
\* the previous state is returned and the counter is one higher; on failure
\* state and counter are unchanged.
C13_TransitionContract ==
    m_res.op = "transition" =>
        /\ m_res.ok <=> (/\ m_res.before.state # "HALTED"
                         /\ m_res.to \in ALLOWED_TRANSITIONS[m_res.before.state])
        /\ m_res.ok =>
              /\ m_sm.state = m_res.to
              /\ m_res.returned = m_res.before.state
              /\ m_sm.transition_count = m_res.before.transition_count + 1
        /\ ~m_res.ok => m_sm = m_res.before

C13_Witness ==
    /\ m_res.op = "transition"
    /\ ~m_res.ok
    /\ m_res.before.state = "IDLE"
    /\ m_res.to = "EXECUTING"
    /\ m_res.before.transition_count >= 1
    /\ m_sm = m_res.before

\* C14: halt() succeeds from every state but HALTED and leaves HALTED; from
\* HALTED every transition() and halt() call fails and changes nothing, and
\* only reset leaves HALTED.
C14_HaltTerminal ==
    /\ [](m_res.op = "halt" /\ m_res.before.state # "HALTED" =>
              m_res.ok /\ m_sm.state = "HALTED")
    /\ [](m_res.op \in {"transition", "halt"}
              /\ m_res.before.state = "HALTED" =>
              ~m_res.ok /\ m_sm = m_res.before)
    /\ [][m_sm.state = "HALTED" /\ m_res'.op # "reset" =>
              m_sm'.state = "HALTED"]_vars

C14_Witness ==
    /\ m_res.op \in {"transition", "halt"}
    /\ m_res.before.state = "HALTED"
    /\ ~m_res.ok
    /\ m_sm.state = "HALTED"
    /\ m_sm.transition_count >= 2

\* C15 as stated: on every receipt of submit, status is ACCEPTED iff the
\* decision is ALLOW and no execution error occurred, REJECTED iff the
\* decision is DENY, and FAILED iff the decision is ALLOW and the tool
\* execution raised.
C15_StatusDecision ==
    OfSubmit =>
        /\ receipt.status = "ACCEPTED" <=>
               (receipt.decision = "ALLOW" /\ receipt.error = None)
        /\ receipt.status = "REJECTED" <=> receipt.decision = "DENY"
        /\ receipt.status = "FAILED" <=>
               (receipt.decision = "ALLOW" /\ receipt.error # None)

\* C15, amended: status is ACCEPTED iff the decision is ALLOW and no
\* execution error occurred; REJECTED iff the decision is DENY and no
\* internal error occurred; FAILED iff the decision is ALLOW and the tool
\* execution failed, or an internal error occurred, in which case the
\* decision is DENY and the error is "internal".
C15_StatusDecisionInternal ==
    OfSubmit =>
        /\ receipt.status \in {"ACCEPTED", "REJECTED", "FAILED"}
        /\ receipt.decision \in {"ALLOW", "DENY"}
        /\ receipt.status = "ACCEPTED" <=>
               (receipt.decision = "ALLOW" /\ receipt.error = None)
        /\ receipt.status = "REJECTED" <=>
               (receipt.decision = "DENY" /\ ~panicked)
        /\ receipt.status = "FAILED" <=>
               \/ receipt.decision = "ALLOW" /\ receipt.error # None
               \/ receipt.decision = "DENY" /\ panicked
        /\ panicked => receipt.error = "internal"

C15_Witness ==
    /\ lastOp = "submit"
    /\ receipt.status = "FAILED"
    /\ receipt.decision = "ALLOW"
    /\ receipt.error # None
    /\ invoked = 1
    /\ ~panicked

\* C16: when an internal error occurs while a submit is processed, submit
\* still returns a receipt, with status FAILED and decision DENY, and exactly
\* one ledger entry, with decision DENY and error "internal", is appended.
C16_InternalErrorDenied ==
    [][(nSubmits' = nSubmits + 1 /\ panicked') =>
          /\ receipt'.status = "FAILED"
          /\ receipt'.decision = "DENY"
          /\ Len(ledger') = Len(ledger) + 1
          /\ SubSeq(ledger', 1, Len(ledger)) = ledger
          /\ ledger'[Len(ledger')].decision = "DENY"
          /\ ledger'[Len(ledger')].error = "internal"
          /\ ledger'[Len(ledger')].request_id = receipt'.request_id]_vars

C16_Witness ==
    /\ lastOp = "submit"
    /\ panicked
    /\ path = <<"VALIDATING", "ARBITRATING", "EXECUTING", "HALTED">>
    /\ receipt.status = "FAILED"
    /\ receipt.decision = "DENY"
    /\ ledger[Len(ledger)].error = "internal"

\* C17: every operation leaves the entries the ledger held before it in
\* place and unchanged: the ledger before is a prefix of the ledger after,
\* and an exported bundle holds a prefix of the ledger.
C17_AppendOnly ==
    /\ [][/\ Len(ledger') >= Len(ledger)
          /\ SubSeq(ledger', 1, Len(ledger)) = ledger]_vars
    /\ [](bundle # <<>> =>
             /\ Len(bundle[1].ledger_entries) <= Len(ledger)
             /\ SubSeq(ledger, 1, Len(bundle[1].ledger_entries))
                    = bundle[1].ledger_entries)

C17_Witness ==
    /\ Len(ledger) = 3
    /\ bundle # <<>>
    /\ Len(bundle[1].ledger_entries) = 1
    /\ bundle[1].ledger_entries[1] = ledger[1]
    /\ lastOp = "halt"

C19_NoExceptionEscapes ==
    d_call.present =>
        /\ ~d_res.raised
        /\ d_res.success \/ d_res.error # None
        /\ (d_call.name \in {"", "missing", "boom"} \/ ~d_call.params.is_dict)
               => ~d_res.success

C21_WitnessDenied ==
    /\ lastOp = "submit"
    /\ receipt.request_id = "r5"
    /\ variant = "strict"
    /\ receipt.decision = "DENY"
    /\ Len(ledger) = 1

\* C22: the evaluator runs all six checks without short-circuiting: the
\* violations it returns are the violations of the required-fields, actor,
\* tool, param-size, intent-length and tool-call-structure checks, in that
\* order, and the request is allowed exactly when that list is empty.
C22_AllChecksRun ==
    p_result.op = "evaluate"
    => /\ p_result.violations
            = check_required_fields(p_request, p_policy)
              \o check_actor_allowed(p_request, p_policy)
              \o check_tool_allowed(p_request, p_policy)
              \o check_param_size(p_request, p_policy)
              \o check_intent_length(p_request, p_policy)
              \o check_tool_call_structure(p_request)
       /\ p_result.allowed <=> p_result.violations = <<>>

\* A request that fails all six checks at once.
C22_Witness ==
    /\ p_result.op = "evaluate"
    /\ check_required_fields(p_request, p_policy) # <<>>
    /\ check_actor_allowed(p_request, p_policy) # <<>>
    /\ check_tool_allowed(p_request, p_policy) # <<>>
    /\ check_param_size(p_request, p_policy) # <<>>
    /\ check_intent_length(p_request, p_policy) # <<>>
    /\ check_tool_call_structure(p_request) # <<>>
    /\ Len(p_result.violations) >= 6
    /\ ~p_result.allowed

\* A request's field is absent or empty, in the sense of the specification.
FieldAbsent(request, field) ==
    IF field \in {"request_id", "actor", "intent"} THEN request[field] = ""
    ELSE IF field = "ts_ms" THEN FALSE
    ELSE IF field = "tool_call" THEN ~request.tool_call.present
    ELSE IF field = "params"
    THEN request.params.is_none
         \/ (request.params.is_dict /\ request.params.kv = <<>>
             /\ ~request.params.has_constraints)
    ELSE request.evidence \in {None, ""}

\* C23: for every field a policy requires -- request_id, actor, intent, ts_ms,
\* tool_call, params or evidence -- the evaluator reports "Required field ...
\* is missing or empty" exactly when the request's field is absent or empty.
C23_RequiredReportedWhenAbsent ==
    p_result.op = "evaluate"
    => \A field \in p_policy.required_fields :
         (\E i \in 1..Len(p_result.violations) :
             p_result.violations[i]
                 = "Required field '" \o field \o "' is missing or empty")
         <=> FieldAbsent(p_request, field)

\* C24: for a request with a tool call, given as a ToolCall object or as a
\* dictionary, the tool-call shape check reports a violation exactly when the
\* name is empty or the params are not a mapping.
C24_ShapeViolationIffMalformed ==
    (p_result.op = "evaluate" /\ p_request.tool_call.present)
    => ((\E i \in 1..Len(p_result.violations) :
            p_result.violations[i]
                \in {"Tool call name is empty",
                     "Tool call params must be a dictionary"})
        <=> (p_request.tool_call.name = ""
             \/ (p_request.tool_call.has_params
                 /\ ~p_request.tool_call.params.is_dict)))

\* params holds a "constraints" mapping whose scope, non_goals and
\* success_criteria are all present, non-empty, non-whitespace strings.
WellFormedConstraints(params) ==
    /\ ~params.is_none
    /\ params.has_constraints
    /\ params.constraints.is_dict
    /\ \A key \in {"scope", "non_goals", "success_criteria"} :
         LET value == Lookup(params.constraints.kv, key)
         IN value \notin {Missing, None, NotAString} /\ Strip(value) # ""

\* C26: the dual-channel check returns no violation exactly when params holds
\* a "constraints" mapping whose scope, non_goals and success_criteria are all
\* non-empty strings; a missing key, a null, an empty or whitespace string or
\* a non-string value yields a violation.
C26_DualChannelAcceptsOnlyWellFormed ==
    p_result.op = "dual-channel"
    => (p_result.violations = <<>> <=> WellFormedConstraints(p_request.params))

\* C25: an evidence-first kernel denies an otherwise valid request whose
\* evidence is absent, empty or whitespace only -- status REJECTED, decision
\* DENY, an error that names the evidence field, no handler invoked -- and
\* accepts the same request with evidence "ok" (ACCEPTED, ALLOW); either
\* submit appends exactly one ledger entry.
C25_EvidenceRequired ==
    [][(nSubmits' = nSubmits + 1 /\ lastOp' = "submit"
        /\ variant = "evidence-first")
       => /\ receipt'.request_id \in DOMAIN NoEvidence
             => /\ receipt'.status = "REJECTED"
                /\ receipt'.decision = "DENY"
                /\ receipt'.error
                     \in {"Evidence field is required for this kernel variant",
                          "Evidence field cannot be empty"}
                /\ invoked' = 0
                /\ Len(ledger') = Len(ledger) + 1
                /\ ledger'[Len(ledger')].decision = "DENY"
          /\ (receipt'.request_id = "r1" /\ ~panicked')
             => /\ receipt'.status = "ACCEPTED"
                /\ receipt'.decision = "ALLOW"
                /\ receipt'.tool_result = "hi"
                /\ Len(ledger') = Len(ledger) + 1
                /\ ledger'[Len(ledger')].decision = "ALLOW"]_vars

\* The request is denied with whitespace evidence and then accepted with
\* evidence "ok".
C25_Witness ==
    /\ variant = "evidence-first"
    /\ lastOp = "submit"
    /\ Len(ledger) = 2
    /\ ledger[1].request_id = "e3"
    /\ ledger[1].decision = "DENY"
    /\ ledger[2].request_id = "r1"
    /\ ledger[2].decision = "ALLOW"
    /\ receipt.status = "ACCEPTED"

\* C27: register fails exactly when the name is already registered and
\* unregister fails exactly when it is not; a failed call leaves the registry
\* as it was, the handler of the name included; a successful register adds
\* the name with the handler given and a successful unregister removes it,
\* every other name keeping its handler -- so the names listed are always
\* those registered and not since unregistered.
C27_RegistryContract ==
    [][(<<registered, reg_res>>' # <<registered, reg_res>>)
       => LET name == reg_res'.name
          IN /\ reg_res'.op \in {"register", "unregister"}
             /\ reg_res'.ok
                <=> (has(registered, name) <=> reg_res'.op = "unregister")
             /\ ~reg_res'.ok => registered' = registered
             /\ \A other \in ToolNames \ {name} :
                   registered'[other] = registered[other]
             /\ (reg_res'.ok /\ reg_res'.op = "register")
                => /\ registered'[name] = reg_res'.handler
                   /\ list_tools(registered')
                        = list_tools(registered) \cup {name}
             /\ (reg_res'.ok /\ reg_res'.op = "unregister")
                => list_tools(registered') = list_tools(registered) \ {name}
      ]_vars

\* A second register of "echo", with another handler, has failed and "echo"
\* still has the handler it was first registered with.
C27_Witness ==
    /\ reg_res.op = "register"
    /\ reg_res.name = "echo"
    /\ reg_res.handler = "h2"
    /\ ~reg_res.ok
    /\ registered["echo"] = "h1"
    /\ list_tools(registered) = {"echo", "add"}

\* An unregister of a name that is not registered has failed.
C27_WitnessUnregister ==
    /\ reg_res.op = "unregister"
    /\ reg_res.name = "boom"
    /\ ~reg_res.ok
    /\ list_tools(registered) = {"echo", "add"}

\* C29: an evidence bundle is a frozen snapshot.  The export that produces it
\* changes neither ledger nor state machine and gives it the entries and the
\* root hash the ledger has at that moment; no submit, halt or append made
\* afterwards changes the bundle.
C29_BundleFrozen ==
    /\ [][bundle' # bundle
          => /\ lastOp' = "export"
             /\ ledger' = ledger
             /\ sm' = sm
             /\ bundle'[1].ledger_entries = ledger
             /\ bundle'[1].root_hash = root_hash(ledger)
             /\ bundle'[1].exported_at_ms = clock]_vars
    /\ [][(nSubmits' # nSubmits \/ nHalts' # nHalts \/ ledger' # ledger
           \/ sm' # sm)
          => bundle' = bundle]_vars

\* A bundle exported after one entry, and a submit made after it: the bundle
\* still holds that one entry and its root hash, the ledger has moved on.
C29_Witness ==
    /\ bundle # <<>>
    /\ lastOp = "submit"
    /\ Len(ledger) = 2
    /\ bundle[1].ledger_entries = <<ledger[1]>>
    /\ bundle[1].root_hash = ledger[1].entry_hash
    /\ bundle[1].root_hash # root_hash(ledger)

C30_MutuallyExclusive ==
    a_obs.op \in {"halt", "export_evidence", "halt_async",
                  "export_evidence_async"}
    => /\ ~a_obs.in_flight
       /\ a_obs.state \in {"IDLE", "HALTED"}

\* C31: whenever the guard of the asynchronous kernel is free, whatever the
\* submit before it met (validation failure, denial, tool error, exception,
\* a halt during the suspended handler), the state the next caller sees is
\* IDLE or HALTED.
C31_QuiescentOnRelease ==
    a_lock = "free" => a_sm.state \in {"IDLE", "HALTED"}

\* C33: every completed call of AsyncBaseKernel.submit has appended exactly
\* one ledger entry: with the guard free, the ledger is as long as the number
\* of submit calls made.
C33_OneEntryPerSubmit ==
    a_lock = "free" => Len(a_ledger) = a_n

\* C34: AsyncBaseKernel.submit returns a receipt in every kernel state; no
\* exception reaches the caller, and a request that was not allowed comes
\* back with decision DENY.
C34_AlwaysAReceipt ==
    /\ a_receipt.status # "RAISED"
    /\ a_receipt.status \in {"INVALID", "DENIED"}
       => a_receipt.decision = "DENY"

\* C32: every state change the asynchronous pipeline asks the state machine
\* for, on the allow, deny, validation-failure and exception paths, is a pair
\* of ALLOWED_TRANSITIONS, and a submit that entered VALIDATING and left the
\* kernel in IDLE passed through AUDITING.
C32_AsksOnlyTablePairs ==
    /\ \A i \in 1..Len(a_asked) :
         a_asked[i][2] \in ALLOWED_TRANSITIONS[a_asked[i][1]]
    /\ (a_lock = "free" /\ a_asked # <<>> /\ a_sm.state = "IDLE")
       => \E i \in 1..Len(a_asked) : a_asked[i][2] = "AUDITING"

\* What submit_with_retry guarantees about its attempts and its result.
RetryContract ==
    /\ Len(a_retry.statuses) <= a_retry.max_retries + 1
    /\ \A i \in 1..(Len(a_retry.statuses) - 1) :
         a_retry.statuses[i] \in {"ERROR", "RAISED"}
    /\ a_retry.phase = "done"
       => LET last == a_retry.statuses[Len(a_retry.statuses)]
          IN IF last \in {"ERROR", "RAISED"}
             THEN /\ Len(a_retry.statuses) = a_retry.max_retries + 1
                  /\ a_retry.receipt =
                         AsyncReceipt(a_retry.request.request_id, "ERROR",
                                      "DENY",
                                      "Max retries exceeded: "
                                          \o a_retry.last_error)
             ELSE a_retry.receipt = a_receipt /\ a_receipt.status = last

\* C35: submit_with_retry makes at most max_retries + 1 submits, returns the
\* first receipt whose status is not "ERROR" and submits no more after it,
\* returns a DENY receipt "Max retries exceeded" when every attempt errors or
\* raises, and every attempt leaves its own ledger entry.
C35_RetryBounded ==
    /\ RetryContract
    /\ a_lock = "free"
       => Len(a_ledger) = a_retry.entries + Len(a_retry.statuses)

\* C36: the virtual clock never moves backward: across every advance and set
\* call the time does not decrease, now_ms stays at or above every value it
\* returned before, and advance with a negative delta or set with a value
\* below the current time raises and leaves the time unchanged.
C36_ClockMonotonic ==
    [][/\ c_ms' >= c_ms
       /\ c_ms' >= c_max'
       /\ (c_res'.op = "advance" /\ c_res'.arg < 0)
          => (~c_res'.ok /\ c_ms' = c_ms)
       /\ (c_res'.op = "set" /\ c_res'.arg < c_res'.value)
          => (~c_res'.ok /\ c_ms' = c_ms)
       /\ (c_res'.op \in {"advance", "set"} /\ c_res'.ok)
          => c_ms' >= c_res'.value]_cvars

\* A time was read, the clock moved on, and a set below it was refused.
C36_Witness ==
    /\ c_max > 0
    /\ c_ms > c_max
    /\ c_res.op = "set"
    /\ c_res.arg < c_max
    /\ ~c_res.ok

\* C37: during a submit a tool handler is invoked at most once, only while
\* the kernel is in EXECUTING, and only for a request that went through
\* VALIDATING and ARBITRATING on a kernel that was not halted and whose
\* decision is ALLOW; a submit whose decision is DENY, or one on a halted
\* kernel, invokes no handler.
C37_HandlerOnlyWhenAllowed ==
    [][nSubmits' = nSubmits + 1 =>
          /\ invoked' <= 1
          /\ Len(invokedIn') = invoked'
          /\ \A i \in 1..Len(invokedIn') : invokedIn'[i] = "EXECUTING"
          /\ invoked' = 1 =>
                 /\ receipt'.decision = "ALLOW"
                 /\ sm.state = "IDLE"
                 /\ Len(path') >= 3
                 /\ SubSeq(path', 1, 3)
                        = <<"VALIDATING", "ARBITRATING", "EXECUTING">>
          /\ (receipt'.decision = "DENY" \/ sm.state = "HALTED")
                 => invoked' = 0]_vars

\* A submit whose handler was invoked in EXECUTING and raised.
C37_Witness ==
    /\ lastOp = "submit"
    /\ invoked = 1
    /\ invokedIn = <<"EXECUTING">>
    /\ receipt.decision = "ALLOW"
    /\ receipt.status = "FAILED"
    /\ receipt.request_id = "r4"

\* A submit that was denied, and invoked nothing.
C37_WitnessDenied ==
    /\ lastOp = "submit"
    /\ receipt.decision = "DENY"
    /\ receipt.request_id = "r6"
    /\ invoked = 0
    /\ invokedIn = <<>>
    /\ nSubmits = 2

\* C38: in every variant a request whose tool call has an empty name is
\* denied and invokes no tool handler, whether the tool call is a ToolCall or
\* a dictionary, where the ambiguity heuristics are relaxed and with a handler
\* registered under the empty name.
C38_EmptyToolNameDenied ==
    [][(nSubmits' = nSubmits + 1 /\ receipt'.request_id \in {"r10", "r11"}) =>
          /\ "" \in KernelRegistry
          /\ receipt'.decision = "DENY"
          /\ receipt'.status = "REJECTED"
          /\ receipt'.tool_result = None
          /\ invoked' = 0
          /\ "EXECUTING" \notin {path'[i] : i \in 1..Len(path')}]_vars

\* The permissive kernel has denied the request with the empty tool name.
C38_Witness ==
    /\ variant = "permissive"
    /\ lastOp = "submit"
    /\ receipt.request_id = "r10"
    /\ receipt.decision = "DENY"
    /\ invoked = 0
    /\ path = <<"VALIDATING", "AUDITING", "IDLE">>

\* C39: whenever verify_evidence_bundle reports is_valid for a bundle that
\* carries a root_hash, the computed_root_hash it returns is that root_hash
\* and entries_verified is the number of entries of the bundle.
C39_ValidMeansRootMatches ==
    (r_bundle.done /\ r_bundle.is_valid /\ r_expected # None) =>
        /\ r_bundle.computed_root_hash = r_expected
        /\ r_bundle.entries_verified = Len(r_entries)
====
